---- MODULE Spec2Model ----
(***************************************************************************)
(* obsync-pg synchronisation core: the Debouncer                           *)
(* (internal/watcher/debouncer.go), the StateTracker                        *)
(* (internal/sync/state.go) and the Engine (internal/sync/engine.go).      *)
(*                                                                         *)
(* DebouncerSpec : Add / timer expiry / emit / Flush / Stop / consumer.    *)
(* SyncSpec      : SyncFile / FullReconcile / RetryFailed / PullFromDB and *)
(*                 changes of the vault, in one process lifetime.          *)
(* StateSpec     : the state file: Save, crash and restart.                *)
(* ProducerSpec  : Add called by several goroutines, with d.mu explicit.   *)
(* DaemonSpec    : the loop of daemonCmd; TickerSpec: the same from the    *)
(*                 start of the daemon, the ticker case call by call;      *)
(*                 VaultSpec: the daemon while the vault changes.          *)
(* FilterSpec, SanitizeSpec, TrackerSpec : the path filters,               *)
(*                 SanitizeIdentifier and NeedsSync on any input.          *)
(***************************************************************************)
EXTENDS Integers, Sequences, FiniteSets, TLC

(***************************************************************************)
(* Bounds of the model.                                                    *)
(***************************************************************************)
\* quiet window (SyncConfig.DebounceMs), in clock ticks
Delay == 2
\* Add calls for one path inside one quiet window
MaxBurst == 3
\* timers that are armed or whose callback is still running, at one time
MaxTimers == 2
\* capacity of the output channel (100 in the code), scaled down so that a
\* full channel occurs
OutputCap == 1

\* paths handled by the Debouncer: the note of the vault (see EPaths)
DPaths == {"d/c.md"}

(***************************************************************************)
(* Debouncer: event types and the coalescing rule of Add.                  *)
(***************************************************************************)
EventCreate == "CREATE"
EventModify == "MODIFY"
EventDelete == "DELETE"
EventTypes == {EventCreate, EventModify, EventDelete}

NoEvent == [type |-> "none"]
NoTimer == [st |-> "free"]

\* Add, lines "if eventType == EventDelete ... else if ... else if ..."
Coalesce(pendingType, eventType) ==
    IF eventType = EventDelete THEN EventDelete
    ELSE IF pendingType = EventCreate /\ eventType = EventModify THEN pendingType
    ELSE IF pendingType # EventDelete THEN eventType
    ELSE pendingType

VARIABLES
    events,     \* Debouncer.events : path -> pending event (or NoEvent)
    timers,     \* the time.AfterFunc timers that are armed or running
    output,     \* Debouncer.output, the bounded channel
    stopped,    \* Debouncer.stopCh is closed
    outClosed,  \* Debouncer.output is closed
    stopPc,     \* position of Debouncer.Stop
    flushPc,    \* position of Debouncer.Flush
    flushPaths, \* Flush: paths still to emit
    flushHeld,  \* Flush: event taken by emit, not yet sent
    panicked,   \* a goroutine panicked (send on closed channel)
    burst,      \* history: per path, the current burst of Add calls
    lastSent    \* history: the event handed to the output channel by the last step

dvars == <<events, timers, output, stopped, outClosed, stopPc, flushPc,
           flushPaths, flushHeld, panicked, burst, lastSent>>

VARIABLES
    cfg,          \* Engine.config : ignore and include patterns
    local,        \* the vault directory : path -> content (NoFile when absent)
    remote,       \* vault_notes and vault_attachments : path -> row
    cache,        \* StateTracker.state.Files : path -> hash of the last sync
    lastFullSync, \* StateTracker.state.LastFullSync
    dirty,        \* StateTracker.dirty
    disk,         \* the state file on disk
    retryQueue,   \* Engine.retryQueue : path -> retry count (NoRetry when absent)
    pc,           \* the process: "idle" between two handlers, or "down"
    hist          \* history: "clean" right after a FullReconcile in which nothing
                  \* failed, "pulled" right after a complete PullFromDB into an
                  \* empty vault, "none" otherwise

evars == <<cfg, local, remote, cache, lastFullSync, dirty, disk, retryQueue,
           pc, hist>>

VARIABLES
    mu,         \* Debouncer.mu : 0 when free, else the producer that holds it
    prod,       \* the goroutines that call Debouncer.Add, each with its position
    flushOwed,  \* history: paths pending when Flush was called whose event has
                \* not been handed to the output channel since
    flushAdded, \* history: an Add stored an event while Flush was running
    dpc,        \* daemonCmd: position of the daemon ("none": no daemon runs)
    owed,       \* history: paths pending when the daemon was told to shut
                \* down whose event the engine has not handled since
    syncErr,    \* history: a SyncFile called by the daemon returned an error
    served,     \* history: the number of events the daemon has handled is odd
    filt,       \* the last path put to the two filters, with their decisions
    vaultName,  \* the vault name given to SanitizeIdentifier
    ident,      \* the identifier SanitizeIdentifier returned for it
    asked       \* the last call of StateTracker.NeedsSync, with its answer

pvars == <<mu, prod>>
fvars == <<flushOwed, flushAdded>>
mvars == <<dpc, owed, syncErr, served>>
qvars == <<filt, vaultName, ident, asked>>
xvars == <<pvars, fvars, mvars, qvars>>

vars == <<dvars, evars, xvars>>

(***************************************************************************)
(* Engine and StateTracker: data.                                          *)
(***************************************************************************)
\* distinct contents a file can have
MaxContent == 2

\* the vault: an attachment in the root and a note inside folder d
EPaths == {"b.png", "d/c.md"}
\* strings.HasSuffix(strings.ToLower(path), ".md")
Notes == {"d/c.md"}
\* the directories WalkDir enters before it reaches path p; "." is the root
Dirs(p) == IF p = "d/c.md" THEN {".", "d"} ELSE {"."}

Contents == 1..MaxContent
NoFile == 0
\* info.Size(): content c is c units long
Size(c) == c
\* Engine.maxBinarySize, in the same units
maxBinarySize == 1
\* SyncConfig.RetryAttempts
RetryAttempts == 3
\* HashFile: the SHA-256 of the content; injective on Contents
HashFile(c) == 10 + c
NoHash == 0
NoRow == [hash |-> NoHash, data |-> NoFile]
NoRetry == -1
\* SyncState.LastFullSync: never, or the time of a full reconciliation
NoTime == 0
SomeTime == 1
VaultPath == "/vault"
\* the path of another vault
OtherVault == "/other"

\* the state file: absent, cut short by an unfinished write, or a snapshot
NoDisk == [st |-> "none"]
Torn == [st |-> "torn"]

\* doublestar.Match on the patterns and names of the model
Match(pattern, name) ==
    <<pattern, name>> \in {<<"d/**", "d/c.md">>, <<"d/**", "d">>,
                           <<"d", "d">>, <<"**/*.md", "d/c.md">>,
                           <<"*.png", "b.png">>}

\* the configurations: no pattern, folder d ignored, only folder d included
Configs == {[ignore |-> {}, include |-> {}],
            [ignore |-> {"d/**"}, include |-> {}],
            [ignore |-> {}, include |-> {"d/**"}]}

\* outcome of the file and database operations of one upsertFile call
Faults == {"none", "io", "db"}

\* the Engine while only the Debouncer is looked at
EParked ==
    /\ cfg = [ignore |-> {}, include |-> {}]
    /\ local = [p \in EPaths |-> NoFile]
    /\ remote = [p \in EPaths |-> NoRow]
    /\ cache = [p \in EPaths |-> NoHash]
    /\ lastFullSync = NoTime
    /\ dirty = FALSE
    /\ disk = NoDisk
    /\ retryQueue = [p \in EPaths |-> NoRetry]
    /\ pc = "down"
    /\ hist = "none"

\* producers that call Add at the same time
MaxProducers == 2
Producers == 1..MaxProducers
Idle == [pc |-> "idle"]

\* no producer is inside Add, no Flush is looked at
PParked ==
    /\ mu = 0
    /\ prod = [w \in Producers |-> Idle]
    /\ flushOwed = {}
    /\ flushAdded = FALSE

\* no daemon runs
MParked ==
    /\ dpc = "none"
    /\ owed = {}
    /\ syncErr = FALSE
    /\ served = FALSE

\* no path has been put to the filters
NoFilt == [path |-> "none"]

\* SanitizeIdentifier has not been called
NoIdent == [done |-> FALSE]

\* NeedsSync has not been called
NoAsk == [path |-> "none"]

\* no pure function is looked at
QParked ==
    filt = NoFilt /\ vaultName = <<>> /\ ident = NoIdent /\ asked = NoAsk

XParked == PParked /\ MParked /\ QParked

(***************************************************************************)
(* Debouncer: helpers.  Time is kept relative: a pending event carries the *)
(* time since its Timestamp (age, capped at Delay), a timer the time left  *)
(* until it is due.                                                        *)
(***************************************************************************)
Min(a, b) == IF a < b THEN a ELSE b
Max(a, b) == IF a > b THEN a ELSE b

TimerIds == 1..MaxTimers
FreeIds == {i \in TimerIds : timers[i] = NoTimer}

\* time.Timer.Stop: only a timer that has not fired yet is prevented from
\* firing; a fired timer's function keeps running in its own goroutine.
\* Id 0 is a timer that was stopped before.
TimerStop(ts, i) ==
    IF i \in TimerIds /\ ts[i].st = "armed" THEN [ts EXCEPT ![i] = NoTimer] ELSE ts

\* no event is ever found pending
PendingNone == {}
Pending == {p \in DPaths : events[p] # NoEvent}

\* timer.Stop() on the timer of every pending event (Flush, Stop)
RECURSIVE StopAll(_, _)
StopAll(ts, ps) ==
    IF ps = {} THEN ts
    ELSE LET p == CHOOSE q \in ps : TRUE
         IN StopAll(TimerStop(ts, events[p].timer), ps \ {p})

\* the FileEvent that travels through the channel (its Timestamp is not
\* read by any consumer)
FileEvent(pe) == [path |-> pe.path, type |-> pe.type]

\* history: the burst of a path that has seen no Add yet
\* (types: the Add calls; age: time since the last of them; tight: every gap
\* was shorter than the quiet window; clean: no Flush or Stop touched it;
\* n, first: number (capped at 2) and first type of the events handed over)
NoBurst == [types |-> <<>>, age |-> Delay, tight |-> TRUE, clean |-> TRUE,
            n |-> 0, first |-> "none"]

\* history: an Add starts a new burst of its path when the path has no
\* pending event and the last Add for it is a full quiet window old;
\* otherwise it continues the current burst
NewBurst(p) == burst[p].age >= Delay /\ events[p] = NoEvent

BurstAfterAdd(p, ty) ==
    IF NewBurst(p)
    THEN [types |-> <<ty>>, age |-> 0, tight |-> TRUE, clean |-> TRUE,
          n |-> 0, first |-> "none"]
    ELSE [burst[p] EXCEPT !.types = Append(@, ty), !.age = 0,
                          !.tight = @ /\ burst[p].age < Delay]

\* history: an event of the current burst of its path was handed over
BurstAfterSend(pe) ==
    IF pe.cur
    THEN [burst EXCEPT ![pe.path].n = Min(@ + 1, 2),
                       ![pe.path].first = IF burst[pe.path].n = 0 THEN pe.type ELSE @]
    ELSE burst

\* history: a new burst of path p begins, events in flight belong to an
\* earlier burst from now on
Outdate(pe, p) ==
    IF pe # NoEvent /\ pe.path = p THEN [pe EXCEPT !.cur = FALSE] ELSE pe

TickEvent(pe) ==
    IF pe = NoEvent THEN pe ELSE [pe EXCEPT !.age = Min(@ + 1, Delay)]

(***************************************************************************)
(* Debouncer: actions.                                                     *)
(***************************************************************************)
DInit ==
    /\ events = [p \in DPaths |-> NoEvent]
    /\ timers = [i \in TimerIds |-> NoTimer]
    /\ output = <<>>
    /\ stopped = FALSE
    /\ outClosed = FALSE
    /\ stopPc = "idle"
    /\ flushPc = "idle"
    /\ flushPaths = {}
    /\ flushHeld = NoEvent
    /\ panicked = FALSE
    /\ burst = [p \in DPaths |-> NoBurst]
    /\ lastSent = NoEvent

\* one clock tick
Tick ==
    /\ ~panicked
    /\ events' = [p \in DPaths |-> TickEvent(events[p])]
    /\ timers' = [i \in TimerIds |->
                    IF timers[i] = NoTimer THEN NoTimer
                    ELSE [timers[i] EXCEPT !.left = Max(@ - 1, 0),
                                           !.ev = TickEvent(@)]]
    /\ flushHeld' = TickEvent(flushHeld)
    /\ burst' = [p \in DPaths |-> [burst[p] EXCEPT !.age = Min(@ + 1, Delay)]]
    /\ lastSent' = NoEvent
    /\ UNCHANGED <<output, stopped, outClosed, stopPc, flushPc,
                   flushPaths, panicked>>

\* Add never finds d.stopCh closed
StopChNeverClosed == FALSE
\* Add: the select on d.stopCh takes the case of the closed channel
StopChClosed == stopped

\* Debouncer.Add, the whole critical section
Add(path, eventType) ==
    /\ ~panicked
    /\ IF StopChClosed
       THEN UNCHANGED <<events, timers, burst, flushHeld>>
       ELSE /\ NewBurst(path) \/ Len(burst[path].types) < MaxBurst
            /\ LET stoppedTs == IF events[path] # NoEvent
                                THEN TimerStop(timers, events[path].timer)
                                ELSE timers
                   free == {i \in TimerIds : stoppedTs[i] = NoTimer}
               IN /\ free # {}
                  /\ LET tid == CHOOSE i \in free : \A j \in free : i <= j
                         nt  == [path |-> path, left |-> Delay,
                                 st |-> "armed", ev |-> NoEvent]
                     IN /\ timers' =
                             [i \in TimerIds |->
                                IF i = tid THEN nt
                                ELSE IF stoppedTs[i] # NoTimer /\ NewBurst(path)
                                THEN [stoppedTs[i] EXCEPT !.ev = Outdate(@, path)]
                                ELSE stoppedTs[i]]
                        /\ events' = [events EXCEPT ![path] =
                             [path |-> path,
                              type |-> IF @ # NoEvent
                                       THEN Coalesce(@.type, eventType)
                                       ELSE eventType,
                              age |-> 0, timer |-> tid, cur |-> TRUE]]
            /\ flushHeld' = IF NewBurst(path) THEN Outdate(flushHeld, path)
                                              ELSE flushHeld
            /\ burst' = [burst EXCEPT ![path] = BurstAfterAdd(path, eventType)]
    /\ lastSent' = NoEvent
    /\ UNCHANGED <<output, stopped, outClosed, stopPc, flushPc,
                   flushPaths, panicked>>

\* the runtime starts the AfterFunc callback: emit(path) is now running but
\* has not taken d.mu yet
TimerFire(i) ==
    /\ ~panicked
    /\ timers[i] # NoTimer
    /\ timers[i].st = "armed"
    /\ timers[i].left = 0
    /\ timers' = [timers EXCEPT ![i].st = "fired"]
    /\ lastSent' = NoEvent
    /\ UNCHANGED <<events, output, stopped, outClosed, stopPc, flushPc,
                   flushPaths, flushHeld, panicked, burst>>

\* the entry stays in the map when emit has found it
DeleteKeeps(evs, p) == evs
\* emit: delete(d.events, path)
Delete(evs, p) == [evs EXCEPT ![p] = NoEvent]

\* emit, the critical section: looks the pending event up by path
EmitLock(i) ==
    /\ ~panicked
    /\ timers[i] # NoTimer
    /\ timers[i].st = "fired"
    /\ LET p == timers[i].path
       IN IF events[p] # NoEvent
          THEN /\ timers' = [timers EXCEPT ![i].st = "send", ![i].ev = events[p]]
               /\ events' = Delete(events, p)
          ELSE /\ timers' = [timers EXCEPT ![i] = NoTimer]
               /\ UNCHANGED events
    /\ lastSent' = NoEvent
    /\ UNCHANGED <<output, stopped, outClosed, stopPc, flushPc,
                   flushPaths, flushHeld, panicked, burst>>

\* emit, the select: send to d.output, or give up once d.stopCh is closed;
\* a send on the closed channel panics
Select(pe, via) ==
    \/ /\ ~outClosed
       /\ Len(output) < OutputCap
       /\ output' = Append(output, FileEvent(pe))
       /\ lastSent' = [path |-> pe.path, type |-> pe.type, age |-> pe.age,
                       via |-> via]
       /\ burst' = BurstAfterSend(pe)
       /\ UNCHANGED panicked
    \/ /\ stopped
       /\ lastSent' = NoEvent
       /\ UNCHANGED <<output, burst, panicked>>
    \/ /\ outClosed
       /\ panicked' = TRUE
       /\ lastSent' = NoEvent
       /\ UNCHANGED <<output, burst>>

EmitSend(i) ==
    /\ ~panicked
    /\ timers[i] # NoTimer
    /\ timers[i].st = "send"
    /\ Select(timers[i].ev, "timer")
    /\ timers' = [timers EXCEPT ![i] = NoTimer]
    /\ UNCHANGED <<events, stopped, outClosed, stopPc, flushPc,
                   flushPaths, flushHeld>>

\* history: Flush or Stop touches the bursts of these paths
Touch(ps) == [p \in DPaths |-> IF p \in ps THEN [burst[p] EXCEPT !.clean = FALSE]
                                           ELSE burst[p]]

\* Debouncer.Flush, the critical section: stop the timers, collect the paths
FlushBegin ==
    /\ ~panicked
    /\ flushPc = "idle"
    /\ timers' = StopAll(timers, Pending)
    /\ events' = [p \in DPaths |->
                    IF events[p] = NoEvent THEN NoEvent
                    ELSE [events[p] EXCEPT !.timer =
                            IF timers'[events[p].timer] = NoTimer THEN 0 ELSE @]]
    /\ flushPaths' = Pending
    /\ flushPc' = IF Pending = {} THEN "done" ELSE "emit"
    /\ burst' = Touch(Pending)
    /\ lastSent' = NoEvent
    /\ UNCHANGED <<output, stopped, outClosed, stopPc,
                   flushHeld, panicked>>

\* Flush: emit(path) for the next collected path, the critical section
FlushEmitLock(p) ==
    /\ ~panicked
    /\ flushPc = "emit"
    /\ p \in flushPaths
    /\ flushPaths' = flushPaths \ {p}
    /\ IF events[p] # NoEvent
       THEN /\ flushHeld' = events[p]
            /\ events' = Delete(events, p)
            /\ burst' = Touch({p})
            /\ flushPc' = "send"
       ELSE /\ UNCHANGED <<flushHeld, events, burst>>
            /\ flushPc' = IF flushPaths' = {} THEN "done" ELSE "emit"
    /\ lastSent' = NoEvent
    /\ UNCHANGED <<timers, output, stopped, outClosed, stopPc,
                   panicked>>

\* Flush: emit(path), the select
FlushEmitSend ==
    /\ ~panicked
    /\ flushPc = "send"
    /\ Select(flushHeld, "flush")
    /\ flushHeld' = NoEvent
    /\ flushPc' = IF flushPaths = {} THEN "done" ELSE "emit"
    /\ UNCHANGED <<events, timers, stopped, outClosed, stopPc, flushPaths>>

\* Debouncer.Stop: close(d.stopCh)
StopClose ==
    /\ ~panicked
    /\ stopPc = "idle"
    /\ stopped' = TRUE
    /\ stopPc' = "clear"
    /\ burst' = Touch(DPaths)
    /\ lastSent' = NoEvent
    /\ UNCHANGED <<events, timers, output, outClosed, flushPc,
                   flushPaths, flushHeld, panicked>>

\* Debouncer.Stop: the critical section
StopClear ==
    /\ ~panicked
    /\ stopPc = "clear"
    /\ timers' = StopAll(timers, Pending)
    /\ events' = [p \in DPaths |-> NoEvent]
    /\ stopPc' = "close"
    /\ lastSent' = NoEvent
    /\ UNCHANGED <<output, stopped, outClosed, flushPc,
                   flushPaths, flushHeld, panicked, burst>>

\* Debouncer.Stop: close(d.output)
StopCloseOutput ==
    /\ ~panicked
    /\ stopPc = "close"
    /\ outClosed' = TRUE
    /\ stopPc' = "done"
    /\ lastSent' = NoEvent
    /\ UNCHANGED <<events, timers, output, stopped, flushPc,
                   flushPaths, flushHeld, panicked, burst>>

\* the consumer takes the next settled event from Events()
Receive ==
    /\ ~panicked
    /\ Len(output) > 0
    /\ output' = Tail(output)
    /\ lastSent' = NoEvent
    /\ UNCHANGED <<events, timers, stopped, outClosed, stopPc, flushPc,
                   flushPaths, flushHeld, panicked, burst>>

DNext ==
    \/ Tick /\ UNCHANGED <<evars, xvars>>
    \/ \E p \in DPaths, ty \in EventTypes : Add(p, ty) /\ UNCHANGED <<evars, xvars>>
    \/ \E i \in TimerIds : TimerFire(i) /\ UNCHANGED <<evars, xvars>>
    \/ \E i \in TimerIds : EmitLock(i) /\ UNCHANGED <<evars, xvars>>
    \/ \E i \in TimerIds : EmitSend(i) /\ UNCHANGED <<evars, xvars>>
    \/ FlushBegin /\ UNCHANGED <<evars, xvars>>
    \/ \E p \in DPaths : FlushEmitLock(p) /\ UNCHANGED <<evars, xvars>>
    \/ FlushEmitSend /\ UNCHANGED <<evars, xvars>>
    \/ StopClose /\ UNCHANGED <<evars, xvars>>
    \/ StopClear /\ UNCHANGED <<evars, xvars>>
    \/ StopCloseOutput /\ UNCHANGED <<evars, xvars>>
    \/ Receive /\ UNCHANGED <<evars, xvars>>

\* the Debouncer alone
DebouncerInit == DInit /\ EParked /\ XParked

DebouncerSpec == DebouncerInit /\ [][DNext]_vars

\* the Debouncer while nobody calls Flush or Stop
BNext ==
    \/ Tick /\ UNCHANGED <<evars, xvars>>
    \/ \E p \in DPaths, ty \in EventTypes : Add(p, ty) /\ UNCHANGED <<evars, xvars>>
    \/ \E i \in TimerIds : TimerFire(i) /\ UNCHANGED <<evars, xvars>>
    \/ \E i \in TimerIds : EmitLock(i) /\ UNCHANGED <<evars, xvars>>
    \/ \E i \in TimerIds : EmitSend(i) /\ UNCHANGED <<evars, xvars>>
    \/ Receive /\ UNCHANGED <<evars, xvars>>

BurstSpec == DebouncerInit /\ [][BNext]_vars

(***************************************************************************)
(* Debouncer: Add called by several producers at once.  Here d.mu is       *)
(* explicit and Add is split at its two accesses to d.events, the lookup   *)
(* and the store; the other critical sections (emit, Flush, Stop) take and *)
(* release d.mu inside one step.  The burst history is not kept here.      *)
(***************************************************************************)
\* d.mu.Lock() returns only while no one holds the mutex
\* the mutex lets everyone in
LockNoWait == TRUE
Lock == mu = 0

\* a producer calls Add for a path and waits for d.mu; the event type it
\* passes is drawn when it gets the mutex
AddCall(w, path) ==
    /\ ~panicked
    /\ prod[w] = Idle
    /\ prod' = [prod EXCEPT ![w] = [pc |-> "lock", path |-> path]]
    /\ lastSent' = NoEvent
    /\ UNCHANGED <<events, timers, output, stopped, outClosed, stopPc, flushPc,
                   flushPaths, flushHeld, panicked, burst, mu>>

\* Add: d.mu.Lock(), the check of d.stopCh and the lookup
\* "pending, exists := d.events[path]"
AddLook(w, eventType) ==
    /\ ~panicked
    /\ prod[w].pc = "lock"
    /\ Lock
    /\ IF StopChClosed
       THEN /\ prod' = [prod EXCEPT ![w] = Idle]
            /\ UNCHANGED mu
       ELSE /\ prod' = [prod EXCEPT ![w] =
                           [pc |-> "store", path |-> prod[w].path,
                            type |-> eventType,
                            exists |-> (events[prod[w].path] # NoEvent)]]
            /\ mu' = w
    /\ lastSent' = NoEvent
    /\ UNCHANGED <<events, timers, output, stopped, outClosed, stopPc, flushPc,
                   flushPaths, flushHeld, panicked, burst>>

\* Add: the rest of the critical section, on the entry the lookup found, and
\* d.mu.Unlock().  An entry that was found and is no longer in the map is
\* still written to, through the pointer, without effect on the map.
\* (cur = FALSE: the event is not counted in the burst history.)
AddStore(w) ==
    LET path == prod[w].path
        found == prod[w].exists /\ events[path] # NoEvent
        stoppedTs == IF found THEN TimerStop(timers, events[path].timer)
                              ELSE timers
        free == {i \in TimerIds : stoppedTs[i] = NoTimer}
        tid == CHOOSE i \in free : \A j \in free : i <= j
    IN  /\ ~panicked
        /\ prod[w].pc = "store"
        /\ free # {}
        /\ timers' = [stoppedTs EXCEPT ![tid] =
                         [path |-> path, left |-> Delay, st |-> "armed",
                          ev |-> NoEvent]]
        /\ events' = [events EXCEPT ![path] =
                         IF found
                         THEN [@ EXCEPT !.type = Coalesce(@, prod[w].type),
                                        !.age = 0, !.timer = tid]
                         ELSE IF prod[w].exists THEN @
                         ELSE [path |-> path, type |-> prod[w].type, age |-> 0,
                               timer |-> tid, cur |-> FALSE]]
        /\ prod' = [prod EXCEPT ![w] = Idle]
        /\ mu' = 0
        /\ lastSent' = NoEvent
        /\ UNCHANGED <<output, stopped, outClosed, stopPc, flushPc,
                       flushPaths, flushHeld, panicked, burst>>

\* history of Flush: what it owes since it was called, and whether an Add
\* stored an event while it was running
FlushLog ==
    /\ flushOwed' =
          IF flushPc = "idle" /\ flushPc' # "idle"
          THEN {p \in DPaths : events[p] # NoEvent}
          ELSE IF lastSent' # NoEvent THEN flushOwed \ {lastSent'.path}
          ELSE flushOwed
    /\ flushAdded' =
          (/\ flushPc \in {"emit", "send"}
           /\ \/ flushAdded
              \/ \E w \in Producers : prod[w].pc = "store" /\ prod'[w] = Idle)

\* emit keeps d.mu until its select is over (i: the timer whose expiry runs
\* the emit, 0 for the emit that Flush calls)
EmitUnlockLate(i) == MaxProducers + 1 + i
\* emit: d.mu.Unlock() comes before the select, d.mu is free again
EmitUnlock(i) == 0

\* emit returns: d.mu is as emit left it at its Unlock
EmitReturn(i) == IF mu = MaxProducers + 1 + i THEN 0 ELSE mu

PNext ==
    \/ Tick /\ UNCHANGED <<evars, pvars, mvars, qvars>> /\ FlushLog
    \/ \E w \in Producers, p \in DPaths :
           AddCall(w, p) /\ UNCHANGED <<evars, mvars, qvars>> /\ FlushLog
    \/ \E w \in Producers, ty \in EventTypes :
           AddLook(w, ty) /\ UNCHANGED <<evars, mvars, qvars>> /\ FlushLog
    \/ \E w \in Producers : AddStore(w) /\ UNCHANGED <<evars, mvars, qvars>> /\ FlushLog
    \/ \E i \in TimerIds : TimerFire(i) /\ UNCHANGED <<evars, pvars, mvars, qvars>> /\ FlushLog
    \/ \E i \in TimerIds :
           /\ Lock /\ EmitLock(i)
           /\ mu' = (IF events[timers[i].path] # NoEvent THEN EmitUnlock(i) ELSE 0)
           /\ UNCHANGED <<evars, prod, mvars, qvars>> /\ FlushLog
    \/ \E i \in TimerIds :
           /\ EmitSend(i)
           /\ mu' = EmitReturn(i)
           /\ UNCHANGED <<evars, prod, mvars, qvars>> /\ FlushLog
    \/ Lock /\ FlushBegin /\ UNCHANGED <<evars, pvars, mvars, qvars>> /\ FlushLog
    \/ \E p \in DPaths :
           /\ Lock /\ FlushEmitLock(p)
           /\ mu' = (IF events[p] # NoEvent THEN EmitUnlock(0) ELSE 0)
           /\ UNCHANGED <<evars, prod, mvars, qvars>> /\ FlushLog
    \/ /\ FlushEmitSend
       /\ mu' = EmitReturn(0)
       /\ UNCHANGED <<evars, prod, mvars, qvars>> /\ FlushLog
    \/ StopClose /\ UNCHANGED <<evars, pvars, mvars, qvars>> /\ FlushLog
    \/ Lock /\ StopClear /\ UNCHANGED <<evars, pvars, mvars, qvars>> /\ FlushLog
    \/ StopCloseOutput /\ UNCHANGED <<evars, pvars, mvars, qvars>> /\ FlushLog
    \/ Receive /\ UNCHANGED <<evars, pvars, mvars, qvars>> /\ FlushLog

ProducerSpec == DebouncerInit /\ [][PNext]_vars

(***************************************************************************)
(* Engine and StateTracker: operations.  Each handler is one step; a       *)
(* handler that ends in StateTracker.Save stops inside os.WriteFile, and   *)
(* SaveWrite is the rest of that call.                                     *)
(***************************************************************************)
\* Engine.shouldIgnore
shouldIgnore(relPath) ==
    \/ \E pattern \in cfg.ignore : Match(pattern, relPath)
    \/ /\ cfg.include # {}
       /\ ~\E pattern \in cfg.include : Match(pattern, relPath)

\* NeedsSync with the comparison left out
NeedsSyncAlways(path, currentHash) == TRUE
\* NeedsSync that answers false for a path without an entry
NeedsSyncIfTracked(path, currentHash) ==
    cache[path] # NoHash /\ cache[path] # currentHash

\* StateTracker.NeedsSync
NeedsSync(path, currentHash) ==
    cache[path] = NoHash \/ cache[path] # currentHash

\* the error of the upsert is swallowed
RefusedSilently(res) == [res EXCEPT !.call = TRUE]
\* upsertFile when UpsertNote or UpsertAttachment fails: the error is
\* returned before SetFileState
Refused(res) == [res EXCEPT !.ret = "err", !.call = TRUE]

\* os.Stat never reports a missing file
ExistsAlways(relPath) == TRUE
\* upsertFile: os.Stat finds the file
Exists(relPath) == local[relPath] # NoFile

\* Engine.upsertFile with outcome f of its file and database operations:
\* what it returns, whether it called the database, the row and the cache
\* entry of relPath afterwards, whether it called SetFileState
upsertFile(relPath, f) ==
    LET hash == HashFile(local[relPath])
        nothing == [ret |-> "nil", call |-> FALSE, row |-> remote[relPath],
                    st |-> cache[relPath], set |-> FALSE]
    IN  IF ~Exists(relPath) THEN nothing
        ELSE IF shouldIgnore(relPath) THEN nothing
        ELSE IF f = "io" THEN [nothing EXCEPT !.ret = "err"]
        ELSE IF ~NeedsSync(relPath, hash) THEN nothing
        ELSE IF relPath \notin Notes /\ Size(local[relPath]) > maxBinarySize
             THEN [nothing EXCEPT !.st = hash, !.set = TRUE]
        ELSE IF f = "db" THEN Refused(nothing)
        ELSE [ret |-> "nil", call |-> TRUE,
              row |-> [hash |-> hash, data |-> local[relPath]],
              st |-> hash, set |-> TRUE]

\* FullReconcile: the files WalkDir collects
WalkDir ==
    {p \in EPaths : /\ local[p] # NoFile
                    /\ \A dir \in Dirs(p) : ~shouldIgnore(dir)
                    /\ ~shouldIgnore(p)}

\* FullReconcile: toSync and toDelete when HashFile fails on the files hf
\* toSync computed against the State Cache instead of the remote inventory
ToSyncAgainstCache(hf) == {p \in WalkDir \ hf : cache[p] # HashFile(local[p])}
ToSync(hf) == {p \in WalkDir \ hf : remote[p].hash # HashFile(local[p])}
\* toDelete with the test for the local file turned around
ToDeletePresent(hf) == {p \in EPaths : remote[p] # NoRow /\ p \in WalkDir \ hf}
ToDelete(hf) == {p \in EPaths : remote[p] # NoRow /\ p \notin WalkDir \ hf}

\* the failure is logged and not queued
QueueForgets(failed) == retryQueue
\* FullReconcile: a path whose upsertFile failed enters the retry queue
Queue(failed) ==
    [p \in EPaths |-> IF p \in failed THEN 0 ELSE retryQueue[p]]

\* FullReconcile: the batch deletes it issues
Batches(hf) ==
    {k \in {"notes", "attachments"} :
        IF k = "notes" THEN ToDelete(hf) \cap Notes # {}
                       ELSE ToDelete(hf) \ Notes # {}}

\* what happens inside the os.WriteFile of StateTracker.Save: it succeeds,
\* the file cannot be opened, the write fails after the file was emptied, or
\* the process dies after the file was emptied
SaveOutcomes == {"ok", "open", "write", "crash"}

\* Save writes whether or not anything changed
MustWriteAlways(isDirty) == TRUE
\* Save: if !st.dirty { return nil }
MustWrite(isDirty) == isDirty

\* StateTracker.Save of the file map files and the time lfs
Save(s, files, lfs, isDirty) ==
    IF ~MustWrite(isDirty)
    THEN [disk |-> disk, dirty |-> FALSE, up |-> TRUE, ret |-> "nil"]
    ELSE IF s = "ok"
    THEN [disk |-> [st |-> "ok", vault |-> VaultPath, files |-> files,
                    lastFullSync |-> lfs],
          dirty |-> FALSE, up |-> TRUE, ret |-> "nil"]
    ELSE IF s = "open"
    THEN [disk |-> disk, dirty |-> TRUE, up |-> TRUE, ret |-> "err"]
    ELSE IF s = "write"
    THEN [disk |-> Torn, dirty |-> TRUE, up |-> TRUE, ret |-> "err"]
    ELSE [disk |-> Torn, dirty |-> FALSE, up |-> FALSE, ret |-> "nil"]

NoFiles == [p \in EPaths |-> NoHash]
NoQueue == [p \in EPaths |-> NoRetry]

\* the memory of the process when a handler is left; it is lost when the
\* process died inside the handler
Leave(up, files, lfs, isDirty, queue) ==
    /\ pc' = IF up THEN "idle" ELSE "down"
    /\ cache' = IF up THEN files ELSE NoFiles
    /\ lastFullSync' = IF up THEN lfs ELSE NoTime
    /\ dirty' = (up /\ isDirty)
    /\ retryQueue' = IF up THEN queue ELSE NoQueue

EInit ==
    /\ cfg \in Configs
    /\ local \in [EPaths -> {NoFile} \cup Contents]
    /\ remote = [p \in EPaths |-> NoRow]
    /\ cache = NoFiles
    /\ lastFullSync = NoTime
    /\ dirty = FALSE
    /\ disk = NoDisk
    /\ retryQueue = NoQueue
    /\ pc = "idle"
    /\ hist = "none"

\* the table that holds the row of a path: syncNote writes vault_notes and
\* syncAttachment writes vault_attachments
TableOf(relPath) == IF relPath \in Notes THEN "notes" ELSE "attachments"

\* the DELETE goes to the other table
RemoveTableSwapped(relPath) ==
    IF relPath \in Notes THEN "attachments" ELSE "notes"
\* Engine.RemoveFile: the table it deletes from, chosen by the suffix
RemoveTable(relPath) == IF relPath \in Notes THEN "notes" ELSE "attachments"

\* DeleteNote and DeleteAttachment: the row of path after the DELETE on table
DeleteFrom(table, path) ==
    IF table = TableOf(path) THEN NoRow ELSE remote[path]

\* Engine.SyncFile for one event: what it returns, calls and leaves
Handle(relPath, eventType, f) ==
    LET res == upsertFile(relPath, f)
    IN  IF eventType # EventDelete
        THEN [ret |-> res.ret,
              upserts |-> IF res.call THEN {relPath} ELSE {},
              deletes |-> {}, table |-> "none",
              remote |-> [remote EXCEPT ![relPath] = res.row],
              files |-> [cache EXCEPT ![relPath] = res.st],
              dirty |-> (dirty \/ res.set)]
        ELSE IF f = "db"
        THEN [ret |-> "err", upserts |-> {}, deletes |-> {relPath},
              table |-> RemoveTable(relPath),
              remote |-> remote, files |-> cache, dirty |-> dirty]
        ELSE [ret |-> "nil", upserts |-> {}, deletes |-> {relPath},
              table |-> RemoveTable(relPath),
              remote |-> [remote EXCEPT
                            ![relPath] = DeleteFrom(RemoveTable(relPath), relPath)],
              files |-> [cache EXCEPT ![relPath] = NoHash],
              dirty |-> TRUE]

\* Engine.SyncFile, called by the daemon for one debounced event; the
\* daemon only logs an error it returns
SyncFile(relPath, eventType, f) ==
    LET h == Handle(relPath, eventType, f)
    IN  /\ pc = "idle"
        /\ eventType = EventDelete => f # "io"
        /\ remote' = h.remote
        /\ Leave(TRUE, h.files, lastFullSync, h.dirty, retryQueue)
        /\ hist' = "none"
        /\ UNCHANGED <<cfg, local, disk>>

\* Engine.FullReconcile up to its final Save: HashFile fails on the files
\* hf during the scan, uf[p] is the outcome of upsertFile(p), the batch
\* deletes in df fail.  What it computes, calls and leaves.
Reconcile(hf, uf, df) ==
    LET toSync == ToSync(hf)
        toDelete == ToDelete(hf)
        res == [p \in toSync |-> upsertFile(p, uf[p])]
        failed == {p \in toSync : res[p].ret = "err"}
        gone == {p \in toDelete :
                    (IF p \in Notes THEN "notes" ELSE "attachments") \notin df}
    IN  [ret |-> "nil",
         toSync |-> toSync,
         toDelete |-> toDelete,
         upserts |-> {p \in toSync : res[p].call},
         failed |-> failed,
         deletes |-> toDelete,
         remote |-> [p \in EPaths |->
                        IF p \in toSync THEN res[p].row
                        ELSE IF p \in gone THEN NoRow
                        ELSE remote[p]],
         files |-> [p \in EPaths |->
                        IF p \in toSync THEN res[p].st
                        ELSE IF p \in toDelete THEN NoHash
                        ELSE cache[p]],
         queue |-> Queue(failed)]

\* Engine.FullReconcile; s is the outcome of its final Save
FullReconcile(hf, uf, df, s) ==
    LET r == Reconcile(hf, uf, df)
        sv == Save(s, r.files, SomeTime, TRUE)
    IN  /\ pc = "idle"
        /\ remote' = r.remote
        /\ disk' = sv.disk
        /\ Leave(sv.up, r.files, SomeTime, sv.dirty, r.queue)
        /\ hist' = IF sv.up /\ hf = {} /\ r.failed = {} /\ df = {}
                   THEN "clean" ELSE "none"
        /\ UNCHANGED <<cfg, local>>

\* the error of the fetch is returned after SetLastFullSync
FetchFailedLate ==
    [ret |-> "err", upserts |-> {}, deletes |-> {}, remote |-> remote,
     files |-> cache, lastFullSync |-> SomeTime, dirty |-> TRUE,
     queue |-> retryQueue]
\* FullReconcile when GetAllNoteHashes or GetAllAttachmentHashes fails: it
\* returns the error right after the walk of the vault
FetchFailed ==
    [ret |-> "err", upserts |-> {}, deletes |-> {}, remote |-> remote,
     files |-> cache, lastFullSync |-> lastFullSync, dirty |-> dirty,
     queue |-> retryQueue]

\* Engine.FullReconcile when GetAllNoteHashes or GetAllAttachmentHashes fails
FullReconcileFetchFails ==
    /\ pc = "idle"
    /\ remote' = FetchFailed.remote
    /\ Leave(TRUE, FetchFailed.files, FetchFailed.lastFullSync,
             FetchFailed.dirty, FetchFailed.queue)
    /\ hist' = "none"
    /\ UNCHANGED <<cfg, local, disk>>

\* an entry at the ceiling is tried once more
TriedAtCeiling ==
    {p \in EPaths : retryQueue[p] # NoRetry /\ retryQueue[p] <= RetryAttempts}
\* the queued paths RetryFailed hands to upsertFile
Tried == {p \in EPaths : retryQueue[p] # NoRetry /\ retryQueue[p] < RetryAttempts}

\* the count is written back as it was
RaisedNever(count) == count
\* RetryFailed: e.retryQueue[path] = count + 1
Raised(count) == count + 1

\* Engine.RetryFailed: what it calls and leaves
Sweep(uf) ==
    LET res == [p \in Tried |-> upsertFile(p, uf[p])]
    IN  [upserts |-> {p \in Tried : res[p].call},
         failed |-> {p \in Tried : res[p].ret = "err"},
         remote |-> [p \in EPaths |-> IF p \in Tried THEN res[p].row ELSE remote[p]],
         files |-> [p \in EPaths |-> IF p \in Tried THEN res[p].st ELSE cache[p]],
         dirty |-> (dirty \/ \E p \in Tried : res[p].set),
         queue |-> [p \in EPaths |->
                        IF p \in Tried /\ res[p].ret = "err"
                        THEN Raised(retryQueue[p]) ELSE NoRetry]]

\* Engine.RetryFailed, called by the daemon every 30 seconds
RetryFailed(uf) ==
    LET r == Sweep(uf)
    IN  /\ pc = "idle"
        /\ remote' = r.remote
        /\ Leave(TRUE, r.files, lastFullSync, r.dirty, r.queue)
        /\ hist' = "none"
        /\ UNCHANGED <<cfg, local, disk>>

\* Engine.SaveState (daemon: every 30 seconds and on shutdown; sync command)
SaveState(s) ==
    LET sv == Save(s, cache, lastFullSync, dirty)
    IN  /\ pc = "idle"
        /\ ~dirty => s = "ok"
        /\ disk' = sv.disk
        /\ Leave(sv.up, cache, lastFullSync, sv.dirty, retryQueue)
        /\ hist' = "none"
        /\ UNCHANGED <<cfg, local, remote>>

\* the process ends between two handlers (killed, or the command returns)
Crash ==
    /\ pc = "idle"
    /\ Leave(FALSE, cache, lastFullSync, dirty, retryQueue)
    /\ hist' = "none"
    /\ UNCHANGED <<cfg, local, remote, disk>>

\* the SyncState NewStateTracker starts from
FreshState == [vault |-> VaultPath, files |-> NoFiles, lastFullSync |-> NoTime]

\* StateTracker.load: the snapshot of the state file replaces the state when
\* the file can be read and parsed
load ==
    IF disk.st = "ok"
    THEN [vault |-> disk.vault, files |-> disk.files,
          lastFullSync |-> disk.lastFullSync]
    ELSE FreshState

\* any snapshot is taken for this vault's
VaultPathUnchecked(state) == TRUE
\* the check of the snapshot's vault path against the vault of the process
VaultPathMatches(state) == state.vault = VaultPath

\* NewStateTracker: the loaded state, or the fresh one if it is another vault's
NewStateTracker == IF VaultPathMatches(load) THEN load ELSE FreshState

\* NewEngine: the process starts with the state NewStateTracker gives
NewEngine ==
    /\ pc = "down"
    /\ Leave(TRUE, NewStateTracker.files, NewStateTracker.lastFullSync,
             FALSE, NoQueue)
    /\ hist' = "none"
    /\ UNCHANGED <<cfg, local, remote, disk>>

\* the file maps of the snapshots of another vault
ForeignFiles == [EPaths -> {NoHash, HashFile(1)}]

\* while no process runs, the state file becomes the snapshot of another
\* vault: the file name only carries the first 12 digits of the hash of the
\* vault path, and the state directory is shared by all vaults
ForeignStateFile(files, lfs) ==
    /\ pc = "down"
    /\ disk' = [st |-> "ok", vault |-> OtherVault, files |-> files,
                lastFullSync |-> lfs]
    /\ hist' = "none"
    /\ UNCHANGED <<cfg, local, remote, cache, lastFullSync, dirty,
                   retryQueue, pc>>

\* the user changes the vault: any number of files written or removed
\* between two steps of the process
LocalChange(tree) ==
    /\ tree # local
    /\ local' = tree
    /\ hist' = "none"
    /\ UNCHANGED <<cfg, remote, cache, lastFullSync, dirty, disk, retryQueue,
                   pc>>

\* only the rows without a local file are written out
WantedIfMissing == {p \in EPaths : remote[p] # NoRow /\ local[p] = NoFile}
\* the rows PullFromDB writes out: no local file with the row's hash
Wanted ==
    {p \in EPaths : /\ remote[p] # NoRow
                    /\ (local[p] = NoFile \/ HashFile(local[p]) # remote[p].hash)}

\* Engine.PullFromDB: what it returns, the files it tries to write and the
\* vault it leaves
Pull(fetched, wf) ==
    [ret |-> IF fetched THEN "nil" ELSE "err",
     writes |-> IF fetched THEN Wanted ELSE {},
     local |-> [p \in EPaths |->
                   IF fetched /\ p \in Wanted \ wf THEN remote[p].data
                   ELSE local[p]]]

\* Engine.PullFromDB: fetched tells whether GetAllNotes and GetAllAttachments
\* succeeded, wf are the files os.WriteFile (or MkdirAll) fails on
PullFromDB(fetched, wf) ==
    /\ pc = "idle"
    /\ ~fetched => wf = {}
    /\ local' = Pull(fetched, wf).local
    /\ hist' = IF /\ fetched /\ wf = {}
                  /\ \A p \in EPaths : local[p] = NoFile
               THEN "pulled" ELSE "none"
    /\ UNCHANGED <<cfg, remote, cache, lastFullSync, dirty, disk, retryQueue,
                   pc>>

\* one process lifetime in which the state file can always be written
SyncNext ==
    \/ \E p \in EPaths, ty \in EventTypes, f \in Faults :
           SyncFile(p, ty, f) /\ UNCHANGED <<dvars, xvars>>
    \/ \E hf \in SUBSET WalkDir : \E uf \in [ToSync(hf) -> Faults] :
         \E df \in SUBSET Batches(hf) :
           FullReconcile(hf, uf, df, "ok") /\ UNCHANGED <<dvars, xvars>>
    \/ FullReconcileFetchFails /\ UNCHANGED <<dvars, xvars>>
    \/ \E uf \in [Tried -> Faults] : RetryFailed(uf) /\ UNCHANGED <<dvars, xvars>>
    \/ \E tree \in [EPaths -> {NoFile} \cup Contents] :
           LocalChange(tree) /\ UNCHANGED <<dvars, xvars>>
    \/ \E fetched \in BOOLEAN : \E wf \in SUBSET Wanted :
           PullFromDB(fetched, wf) /\ UNCHANGED <<dvars, xvars>>

SyncInit == EInit /\ DInit /\ XParked

SyncSpec == SyncInit /\ [][SyncNext]_vars

\* a process lifetime in which files are only removed from the vault, and
\* in which the ticker of the daemon calls RetryFailed again and again
SweepNext ==
    \/ \E p \in EPaths, ty \in EventTypes, f \in Faults :
           SyncFile(p, ty, f) /\ UNCHANGED <<dvars, xvars>>
    \/ \E hf \in SUBSET WalkDir : \E uf \in [ToSync(hf) -> Faults] :
         \E df \in SUBSET Batches(hf) :
           FullReconcile(hf, uf, df, "ok") /\ UNCHANGED <<dvars, xvars>>
    \/ \E uf \in [Tried -> Faults] : RetryFailed(uf) /\ UNCHANGED <<dvars, xvars>>
    \/ \E gone \in SUBSET EPaths :
           LocalChange([p \in EPaths |-> IF p \in gone THEN NoFile ELSE local[p]])
           /\ UNCHANGED <<dvars, xvars>>

SweepSpec ==
    SyncInit /\ [][SweepNext]_vars
    /\ WF_vars(\E uf \in [Tried -> Faults] :
                   RetryFailed(uf) /\ UNCHANGED <<dvars, xvars>>)

\* the state file across process lifetimes, with a database that answers
StateNext ==
    \/ \E p \in EPaths, ty \in EventTypes :
           SyncFile(p, ty, "none") /\ UNCHANGED <<dvars, xvars>>
    \/ \E s \in SaveOutcomes :
           FullReconcile({}, [p \in ToSync({}) |-> "none"], {}, s)
           /\ UNCHANGED <<dvars, xvars>>
    \/ \E s \in SaveOutcomes : SaveState(s) /\ UNCHANGED <<dvars, xvars>>
    \/ Crash /\ UNCHANGED <<dvars, xvars>>
    \/ NewEngine /\ UNCHANGED <<dvars, xvars>>
    \/ \E files \in ForeignFiles, lfs \in {NoTime, SomeTime} :
           ForeignStateFile(files, lfs) /\ UNCHANGED <<dvars, xvars>>
    \/ \E tree \in [EPaths -> {NoFile} \cup Contents] :
           LocalChange(tree) /\ UNCHANGED <<dvars, xvars>>

StateSpec == SyncInit /\ [][StateNext]_vars


(***************************************************************************)
(* The two path filters: the Watcher's, applied to every file system       *)
(* event, and the Engine's, applied by upsertFile.  Both are given the     *)
(* ignore and include patterns of the same configuration.                  *)
(***************************************************************************)
\* the patterns a configuration is made of
Patterns == {"d", "d/**", "**/*.md", "*.png"}
FilterConfigs == [ignore : SUBSET Patterns, include : SUBSET Patterns]

\* Watcher.shouldIgnore: strings.Join(parts[:i], "/") for i = 1..len(parts)
Prefixes(relPath) == IF relPath = "d/c.md" THEN {"d", "d/c.md"} ELSE {relPath}

\* Watcher.shouldIgnore
WatcherShouldIgnore(relPath) ==
    \E pattern \in cfg.ignore :
        \/ Match(pattern, relPath)
        \/ \E partial \in Prefixes(relPath) : Match(pattern, partial)

\* Watcher.shouldInclude
shouldInclude(relPath) ==
    \/ cfg.include = {}
    \/ \E pattern \in cfg.include : Match(pattern, relPath)

\* processEvents hands the event of relPath to handleEvent
WatcherAdmits(relPath) == ~WatcherShouldIgnore(relPath) /\ shouldInclude(relPath)

\* upsertFile goes on to hash relPath
EngineAdmits(relPath) == ~shouldIgnore(relPath)

\* a path is put to both filters
Filter(relPath) ==
    /\ filt' = [path |-> relPath, watcher |-> WatcherAdmits(relPath),
                engine |-> EngineAdmits(relPath)]
    /\ UNCHANGED <<dvars, evars, pvars, fvars, mvars, vaultName, ident, asked>>

\* any configuration, nothing else running
FilterInit ==
    /\ DInit
    /\ cfg \in FilterConfigs
    /\ local = [p \in EPaths |-> NoFile]
    /\ remote = [p \in EPaths |-> NoRow]
    /\ cache = NoFiles
    /\ lastFullSync = NoTime
    /\ dirty = FALSE
    /\ disk = NoDisk
    /\ retryQueue = NoQueue
    /\ pc = "down"
    /\ hist = "none"
    /\ XParked

FilterNext == \E relPath \in EPaths : Filter(relPath)

FilterSpec == FilterInit /\ [][FilterNext]_vars

(***************************************************************************)
(* SanitizeIdentifier: the schema name made of a vault name.  A string is  *)
(* a sequence of characters; "B" stands for the upper-case letters, "1"    *)
(* for the digits and "!" for every character that is neither a letter, a  *)
(* digit, an underscore, a space nor a hyphen.                             *)
(***************************************************************************)
\* PostgreSQL's limit on the length of an identifier
MaxIdentifier == 63
\* the longest head and tail of a vault name of the model
MaxShort == 2

Alphabet == {"a", "B", "1", "_", " ", "-", "!"}
Lower == {"a", "b", "l", "t", "u", "v"}
Digits == {"1"}

\* the vault names: any short head and tail around a run of letters that
\* is empty or about as long as an identifier can be
Short == UNION {[1..n -> Alphabet] : n \in 0..MaxShort}
Fills == {0} \cup ((MaxIdentifier - 8)..(MaxIdentifier + 1))
Names == {h \o [i \in 1..k |-> "a"] \o t : h \in Short, t \in Short, k \in Fills}

\* strings.ToLower
ToLower(s) == [i \in 1..Len(s) |-> IF s[i] = "B" THEN "b" ELSE s[i]]

\* strings.ReplaceAll for one character
ReplaceAll(s, old, new) == [i \in 1..Len(s) |-> IF s[i] = old THEN new ELSE s[i]]

\* ReplaceAllString of [^a-z0-9_] by nothing
IsValid(c) == c \in Lower \cup Digits \cup {"_"}
RemoveInvalid(s) == SelectSeq(s, IsValid)

\* ReplaceAllString of _+ by one underscore
Collapse(s) ==
    LET first(i) == ~(s[i] = "_" /\ i > 1 /\ s[i - 1] = "_")
        kept == SelectSeq([i \in 1..Len(s) |-> i], first)
    IN  [k \in 1..Len(kept) |-> s[kept[k]]]

RECURSIVE TrimRight(_)
\* strings.TrimRight(s, "_")
TrimRight(s) ==
    IF s = <<>> \/ s[Len(s)] # "_" THEN s
    ELSE TrimRight(SubSeq(s, 1, Len(s) - 1))

RECURSIVE TrimLeft(_)
TrimLeft(s) ==
    IF s = <<>> \/ s[1] # "_" THEN s ELSE TrimLeft(Tail(s))

\* strings.Trim(s, "_")
Trim(s) == TrimRight(TrimLeft(s))

\* a leading digit is left as it is
IsDigitNever(c) == FALSE
\* unicode.IsDigit
IsDigit(c) == c \in Digits

\* SanitizeIdentifier
SanitizeIdentifier(n) ==
    LET replaced == ReplaceAll(ReplaceAll(ToLower(n), " ", "_"), "-", "_")
        trimmed == Trim(Collapse(RemoveInvalid(replaced)))
        started ==
            IF Len(trimmed) = 0 THEN <<"v", "a", "u", "l", "t">>
            ELSE IF IsDigit(trimmed[1])
                 THEN <<"v", "a", "u", "l", "t", "_">> \o trimmed
            ELSE trimmed
    IN  IF Len(started) > MaxIdentifier
        THEN TrimRight(SubSeq(started, 1, MaxIdentifier))
        ELSE started

\* the call of SanitizeIdentifier for the vault name
Sanitize ==
    /\ ident = NoIdent
    /\ ident' = [done |-> TRUE, value |-> SanitizeIdentifier(vaultName)]
    /\ UNCHANGED <<dvars, evars, pvars, fvars, mvars, filt, vaultName, asked>>

\* any vault name, nothing else running
SanitizeInit ==
    /\ DInit
    /\ EParked
    /\ PParked
    /\ MParked
    /\ filt = NoFilt
    /\ vaultName \in Names
    /\ ident = NoIdent
    /\ asked = NoAsk

SanitizeNext == Sanitize

SanitizeSpec == SanitizeInit /\ [][SanitizeNext]_vars

(***************************************************************************)
(* StateTracker.NeedsSync, called on any State Cache with any path and any *)
(* fingerprint HashFile can return.                                        *)
(***************************************************************************)
Hashes == {HashFile(c) : c \in Contents}

\* a call of NeedsSync: it takes the read lock, looks the path up and
\* compares; it writes nothing
AskNeedsSync(path, currentHash) ==
    /\ asked' = [path |-> path, hash |-> currentHash,
                 ret |-> NeedsSync(path, currentHash)]
    /\ UNCHANGED <<dvars, evars, pvars, fvars, mvars, filt, vaultName, ident>>

\* any State Cache of a running engine, nothing else running
TrackerInit ==
    /\ DInit
    /\ cfg \in Configs
    /\ local = [p \in EPaths |-> NoFile]
    /\ remote = [p \in EPaths |-> NoRow]
    /\ cache \in [EPaths -> {NoHash} \cup Hashes]
    /\ lastFullSync \in {NoTime, SomeTime}
    /\ dirty \in BOOLEAN
    /\ disk = NoDisk
    /\ retryQueue = NoQueue
    /\ pc = "up"
    /\ hist = "none"
    /\ XParked

TrackerNext ==
    \E path \in EPaths, currentHash \in Hashes : AskNeedsSync(path, currentHash)

TrackerSpec == TrackerInit /\ [][TrackerNext]_vars

(***************************************************************************)
(* The daemon (daemonCmd): the loop that selects between the shutdown      *)
(* signal, the next debounced event and the 30 second ticker, while the    *)
(* watcher feeds the Debouncer and the timers run.  The vault does not     *)
(* change here and the state file can be written.                          *)
(***************************************************************************)
\* the loop ends at the first failed handler
AfterSyncGivesUp(ret) == IF ret = "err" THEN "exit" ELSE "run"
\* "if err := engine.SyncFile(...); err != nil { slog.Error(...) }": the
\* loop goes on whatever SyncFile returned
AfterSync(ret) == "run"

\* case event := <-w.Events(): engine.SyncFile(ctx, event.Path, event.EventType)
DaemonEvent(f) ==
    /\ dpc = "run"
    /\ Len(output) > 0
    /\ Receive
    /\ SyncFile(output[1].path, output[1].type, f)
    /\ dpc' = AfterSync(Handle(output[1].path, output[1].type, f).ret)
    /\ owed' = owed \ {output[1].path}
    /\ syncErr' = (syncErr \/ Handle(output[1].path, output[1].type, f).ret = "err")
    /\ served' = ~served
    /\ UNCHANGED <<pvars, fvars, qvars>>

\* case <-saveTicker.C: engine.SaveState(); engine.RetryFailed(ctx)
DaemonTick(uf) ==
    LET sv == Save("ok", cache, lastFullSync, dirty)
        r == Sweep(uf)
    IN  /\ dpc = "run"
        /\ pc = "idle"
        /\ disk' = sv.disk
        /\ remote' = r.remote
        /\ Leave(TRUE, r.files, lastFullSync, sv.dirty \/ r.files # cache,
                 r.queue)
        /\ hist' = "none"
        /\ UNCHANGED <<cfg, local>>

\* case <-sigCh: w.Stop() begins: close(w.stopCh), which ends the watcher's
\* processEvents, and Debouncer.Stop up to close(d.stopCh)
DaemonSignal ==
    /\ dpc = "run"
    /\ StopClose
    /\ dpc' = "stop"
    /\ owed' = Pending
    /\ UNCHANGED <<syncErr, served>>

\* w.Stop(), the rest of Debouncer.Stop
DaemonStop ==
    /\ dpc = "stop"
    /\ \/ StopClear /\ UNCHANGED dpc
       \/ StopCloseOutput /\ dpc' = "flush"
    /\ UNCHANGED <<owed, syncErr, served>>

\* w.Flush(): after Stop no event is pending, Flush collects nothing
DaemonFlush ==
    /\ dpc = "flush"
    /\ FlushBegin
    /\ UNCHANGED mvars

\* engine.SaveState() and return
DaemonSave ==
    /\ dpc = "flush"
    /\ flushPc = "done"
    /\ SaveState("ok")
    /\ dpc' = "exit"
    /\ UNCHANGED <<owed, syncErr, served>>

\* Watcher.processEvents and handleEvent: a file system event becomes an Add
\* until w.stopCh is closed.  The file system events are one quiet window
\* or more apart here (each starts a burst of its own).
WatcherAdd(path, eventType) ==
    /\ dpc = "run"
    /\ NewBurst(path)
    /\ Add(path, eventType)

\* the daemon is in its loop: NewEngine and NewWatcher are done (the
\* initial FullReconcile found the database unreachable), no pattern is
\* configured and the vault holds at most the note
DaemonInit ==
    /\ DInit
    /\ EInit
    /\ cfg = [ignore |-> {}, include |-> {}]
    /\ local["b.png"] = NoFile
    /\ PParked
    /\ dpc = "run"
    /\ owed = {}
    /\ syncErr = FALSE
    /\ served = FALSE
    /\ QParked

DaemonNext ==
    \/ Tick /\ UNCHANGED <<evars, xvars>>
    \/ \E p \in DPaths, ty \in EventTypes :
           WatcherAdd(p, ty) /\ UNCHANGED <<evars, xvars>>
    \/ \E i \in TimerIds : TimerFire(i) /\ UNCHANGED <<evars, xvars>>
    \/ \E i \in TimerIds : EmitLock(i) /\ UNCHANGED <<evars, xvars>>
    \/ \E i \in TimerIds : EmitSend(i) /\ UNCHANGED <<evars, xvars>>
    \/ \E f \in Faults : DaemonEvent(f)
    \/ \E uf \in [Tried -> Faults] :
           DaemonTick(uf) /\ UNCHANGED <<dvars, xvars>>
    \/ DaemonSignal /\ UNCHANGED <<evars, pvars, fvars, qvars>>
    \/ DaemonStop /\ UNCHANGED <<evars, pvars, fvars, qvars>>
    \/ DaemonFlush /\ UNCHANGED <<evars, pvars, fvars, qvars>>
    \/ DaemonSave /\ UNCHANGED <<dvars, pvars, fvars, qvars>>

DaemonSpec == DaemonInit /\ [][DaemonNext]_vars

\* the daemon's goroutine is scheduled, and its select takes the case of the
\* events channel when that is the case that stays ready
DaemonLiveSpec ==
    DaemonInit /\ [][DaemonNext]_vars /\ WF_vars(\E f \in Faults : DaemonEvent(f))

(***************************************************************************)
(* The daemon from its start, with the ticker case of the loop taken one   *)
(* call at a time: the loop's goroutine runs engine.SaveState() and then   *)
(* engine.RetryFailed(ctx) before it comes back to its select.             *)
(***************************************************************************)
\* "engine.FullReconcile(ctx)" before the loop; its error is only logged
DaemonReconcile(uf) ==
    /\ dpc = "start"
    /\ FullReconcile({}, uf, {}, "ok")
    /\ dpc' = "watch"
    /\ UNCHANGED <<owed, syncErr, served>>

\* NewWatcher and w.Start: the directories are registered with fsnotify and
\* processEvents runs from here on
DaemonWatch ==
    /\ dpc = "watch"
    /\ dpc' = "run"
    /\ UNCHANGED <<owed, syncErr, served>>

\* the select takes "case <-saveTicker.C"
TickerTake ==
    /\ dpc = "run"
    /\ dpc' = "save"
    /\ UNCHANGED <<owed, syncErr, served>>

\* engine.SaveState() of the ticker case
TickerSave ==
    /\ dpc = "save"
    /\ SaveState("ok")
    /\ dpc' = "sweep"
    /\ UNCHANGED <<owed, syncErr, served>>

\* engine.RetryFailed(ctx) of the ticker case; the loop is back at its select
TickerSweep(uf) ==
    /\ dpc = "sweep"
    /\ RetryFailed(uf)
    /\ dpc' = "run"
    /\ UNCHANGED <<owed, syncErr, served>>

\* daemonCmd has made the engine, no pattern is configured and the vault
\* holds at most the note
TickerInit ==
    /\ DInit
    /\ EInit
    /\ cfg = [ignore |-> {}, include |-> {}]
    /\ local["b.png"] = NoFile
    /\ PParked
    /\ dpc = "start"
    /\ owed = {}
    /\ syncErr = FALSE
    /\ served = FALSE
    /\ QParked

TickerNext ==
    \/ \E uf \in [ToSync({}) -> Faults] :
           DaemonReconcile(uf) /\ UNCHANGED <<dvars, pvars, fvars, qvars>>
    \/ DaemonWatch /\ UNCHANGED <<dvars, evars, pvars, fvars, qvars>>
    \/ Tick /\ UNCHANGED <<evars, xvars>>
    \/ \E p \in DPaths, ty \in EventTypes :
           WatcherAdd(p, ty) /\ UNCHANGED <<evars, xvars>>
    \/ \E i \in TimerIds : TimerFire(i) /\ UNCHANGED <<evars, xvars>>
    \/ \E i \in TimerIds : EmitLock(i) /\ UNCHANGED <<evars, xvars>>
    \/ \E i \in TimerIds : EmitSend(i) /\ UNCHANGED <<evars, xvars>>
    \/ \E f \in Faults : DaemonEvent(f)
    \/ TickerTake /\ UNCHANGED <<dvars, evars, pvars, fvars, qvars>>
    \/ TickerSave /\ UNCHANGED <<dvars, pvars, fvars, qvars>>
    \/ \E uf \in [Tried -> Faults] :
           TickerSweep(uf) /\ UNCHANGED <<dvars, pvars, fvars, qvars>>

TickerSpec == TickerInit /\ [][TickerNext]_vars

(***************************************************************************)
(* The daemon while the vault changes: a change of a file is reported by   *)
(* fsnotify once the watcher runs, and the watcher hands it to the         *)
(* Debouncer.  No ticker and no signal here.                               *)
(***************************************************************************)
\* handleEvent: the EventType of the change of path from content old to new
\* (fsnotify.Create, fsnotify.Write, fsnotify.Remove)
NotifiedType(old, new) ==
    IF new = NoFile THEN EventDelete
    ELSE IF old = NoFile THEN EventCreate
    ELSE EventModify

\* the file at path is created, written or removed; processEvents gets the
\* fsnotify event and calls handleEvent if the watcher has been started
VaultChange(path, c) ==
    /\ c # local[path]
    /\ local' = [local EXCEPT ![path] = c]
    /\ hist' = "none"
    /\ UNCHANGED <<cfg, remote, cache, lastFullSync, dirty, disk, retryQueue,
                   pc>>
    /\ IF dpc = "run"
       THEN Add(path, NotifiedType(local[path], c))
       ELSE UNCHANGED dvars

VaultNext ==
    \/ \E uf \in [ToSync({}) -> Faults] :
           DaemonReconcile(uf) /\ UNCHANGED <<dvars, pvars, fvars, qvars>>
    \/ DaemonWatch /\ UNCHANGED <<dvars, evars, pvars, fvars, qvars>>
    \/ \E p \in DPaths, c \in {NoFile} \cup Contents :
           VaultChange(p, c) /\ UNCHANGED xvars
    \/ Tick /\ UNCHANGED <<evars, xvars>>
    \/ \E i \in TimerIds : TimerFire(i) /\ UNCHANGED <<evars, xvars>>
    \/ \E i \in TimerIds : EmitLock(i) /\ UNCHANGED <<evars, xvars>>
    \/ \E i \in TimerIds : EmitSend(i) /\ UNCHANGED <<evars, xvars>>
    \/ \E f \in Faults : DaemonEvent(f)

VaultSpec == TickerInit /\ [][VaultNext]_vars

(***************************************************************************)
(* Debouncer: claims.                                                      *)
(***************************************************************************)
\* a timer of path p is armed or its callback is still running
InFlight(p) == \E i \in TimerIds : timers[i] # NoTimer /\ timers[i].path = p

\* the burst of path p is over and nothing of it is left inside the Debouncer
Settled(p) ==
    /\ burst[p].age >= Delay
    /\ events[p] = NoEvent
    /\ ~InFlight(p)

\* C1: a burst create, modify, modify of one path whose gaps are all shorter
\* than the quiet window hands exactly one event to the consumer queue, and
\* that event is a create: never more than one, and exactly the create once
\* the burst has settled.
C1_Coalescing ==
    \A p \in DPaths :
        (/\ burst[p].clean
         /\ burst[p].tight
         /\ burst[p].types = <<EventCreate, EventModify, EventModify>>)
        => /\ burst[p].n <= 1
           /\ Settled(p) => (burst[p].n = 1 /\ burst[p].first = EventCreate)

\* C2: a burst of one path that ends in a delete hands exactly one event to
\* the consumer queue, and that event is a delete, whatever came before.
C2_DeleteDominance ==
    \A p \in DPaths :
        (/\ burst[p].clean
         /\ burst[p].tight
         /\ burst[p].types # <<>>
         /\ burst[p].types[Len(burst[p].types)] = EventDelete
         /\ burst[p].age >= Delay)
        => /\ burst[p].n <= 1
           /\ Settled(p) => (burst[p].n = 1 /\ burst[p].first = EventDelete)

\* C10: an event reaches the consumer queue through a countdown expiry only
\* when a full quiet window has passed since the latest Add merged into it.
C10_QuietWindowElapsed ==
    (lastSent # NoEvent /\ lastSent.via = "timer") => lastSent.age >= Delay

\* the pending set is as the Adds inside the critical section believe it to
\* be: one Add at a time, each holding d.mu, and the entry it looked up is
\* still the entry of the map; every entry is filed under its own path
PendingSetIntact ==
    /\ \A w \in Producers :
          prod[w].pc = "store" =>
              /\ mu = w
              /\ \A v \in Producers \ {w} : prod[v].pc # "store"
              /\ prod[w].exists <=> events[prod[w].path] # NoEvent
    /\ \A p \in DPaths :
          events[p] # NoEvent =>
              events[p].path = p /\ events[p].type \in EventTypes

\* an Add that returns leaves exactly one entry for its path: the entry that
\* was pending, coalesced with its own event, or else its own event
AddKeepsEntry ==
    \A w \in Producers :
        (prod[w].pc = "store" /\ prod'[w] = Idle) =>
            LET p == prod[w].path
            IN  /\ events'[p] # NoEvent
                /\ events'[p].path = p
                /\ events'[p].type =
                      IF events[p] # NoEvent
                      THEN Coalesce(events[p].type, prod[w].type)
                      ELSE prod[w].type
                /\ \A q \in DPaths \ {p} : events'[q] = events[q]

\* C11: under every interleaving of concurrent Add calls, countdown
\* expiries, Flush and Stop, the pending set holds at most one event per
\* path (the entry filed under that path), and no Add loses or corrupts an
\* entry: the entry an Add works on is the one in the map, and the Add
\* leaves it coalesced with its own event.
C11_ConcurrentAdd == []PendingSetIntact /\ [][AddKeepsEntry]_vars

\* C11 witness: one producer is inside the critical section of Add for a
\* path with a pending event, a second producer waits in Add for the same
\* path, and a countdown expiry waits for the mutex as well
C11_Witness ==
    /\ prod[1].pc = "store" /\ prod[1].exists
    /\ prod[2].pc = "lock" /\ prod[2].path = prod[1].path
    /\ \E i \in TimerIds : timers[i] # NoTimer /\ timers[i].st = "fired"
    /\ flushPc = "emit"

\* the step in which Flush returns
FlushReturns == flushPc # "done" /\ flushPc' = "done"

\* after the step, every event that was pending when Flush was called has
\* been handed to the output channel, or is in the hands of a countdown
\* expiry that took it first and is sending it
FlushHandedAll ==
    \A p \in flushOwed' :
        \E i \in TimerIds : /\ timers'[i] # NoTimer
                            /\ timers'[i].st = "send"
                            /\ timers'[i].ev.path = p

\* after the step nothing is pending, unless an Add stored an event while
\* Flush was running
FlushLeavesNone ==
    ~flushAdded' => \A p \in DPaths : events'[p] = NoEvent

C13_ShutdownFlush == dpc = "exit" => owed = {}

\* the type the claim gives to a burst: delete if a delete was submitted,
\* otherwise create if a create was submitted, otherwise modify
SettledType(types) ==
    IF \E i \in 1..Len(types) : types[i] = EventDelete THEN EventDelete
    ELSE IF \E i \in 1..Len(types) : types[i] = EventCreate THEN EventCreate
    ELSE EventModify

\* C23: once a burst of one path has settled, the event it handed to the
\* consumer queue has the type fixed by the types submitted in the burst:
\* delete if any was a delete, otherwise create if any was a create,
\* otherwise modify.
C23_SettledType ==
    \A p \in DPaths :
        (/\ burst[p].clean
         /\ burst[p].tight
         /\ burst[p].n >= 1
         /\ Settled(p))
        => burst[p].first = SettledType(burst[p].types)

(***************************************************************************)
(* Engine and StateTracker: claims.  A claim about a handler is stated on  *)
(* what the handler returns, calls and leaves (upsertFile, Handle,         *)
(* Reconcile, Sweep) in every reachable state and for every outcome of its *)
(* file and database operations.                                           *)
(***************************************************************************)
\* the fingerprint of the file at p equals the fingerprint cached for p
Gated(p) == local[p] # NoFile /\ cache[p] = HashFile(local[p])

\* the attachment at p is larger than the size limit
Oversize(p) == p \notin Notes /\ Size(local[p]) > maxBinarySize

\* every upsertFile of a full reconciliation goes well
NoFault == [p \in ToSync({}) |-> "none"]

\* C3: for a path whose fresh fingerprint equals the cached one, upsertFile
\* makes no Remote Store call and leaves the State Cache unchanged, whether
\* it is reached from SyncFile (create or modify), from FullReconcile or
\* from RetryFailed.
C3_FingerprintGate ==
    \A p \in EPaths :
        Gated(p) =>
            /\ \A f \in Faults :
                 LET res == upsertFile(p, f)
                 IN  ~res.call /\ ~res.set /\ res.st = cache[p]
                     /\ res.row = remote[p]
            /\ \A ty \in {EventCreate, EventModify}, f \in Faults :
                 LET h == Handle(p, ty, f)
                 IN  h.upserts = {} /\ h.deletes = {} /\ h.files = cache
                     /\ h.remote = remote
            /\ \A hf \in SUBSET WalkDir : \A uf \in [ToSync(hf) -> Faults] :
                 \A df \in SUBSET Batches(hf) :
                   LET r == Reconcile(hf, uf, df)
                   IN  p \in r.toSync =>
                         /\ p \notin r.upserts
                         /\ r.files[p] = cache[p]
                         /\ r.remote[p] = remote[p]
            /\ \A uf \in [Tried -> Faults] :
                 LET r == Sweep(uf)
                 IN  p \in Tried =>
                         /\ p \notin r.upserts
                         /\ r.files[p] = cache[p]
                         /\ r.remote[p] = remote[p]

\* C3 witness: a path with equal fingerprints that the next FullReconcile and
\* the next RetryFailed both hand to upsertFile
C3_Witness ==
    \E p \in EPaths :
        Gated(p) /\ ~shouldIgnore(p) /\ p \in ToSync({}) /\ p \in Tried

\* C4 as stated: right after a FullReconcile in which nothing failed, a
\* second FullReconcile has an empty sync set and an empty delete set and
\* issues no remote upsert and no remote delete.
C4_Idempotence ==
    hist = "clean" =>
        LET r == Reconcile({}, NoFault, {})
        IN  /\ r.toSync = {} /\ r.toDelete = {}
            /\ r.upserts = {} /\ r.deletes = {}

\* C4 amended: right after a FullReconcile in which nothing failed, a second
\* FullReconcile issues no remote upsert and no remote delete, its delete
\* set is empty and the remote store is left as it was; its sync set holds
\* only paths whose cached fingerprint equals the local one, which
\* upsertFile skips.
C4_IdempotentCalls ==
    hist = "clean" =>
        \A uf \in [ToSync({}) -> Faults] :
            LET r == Reconcile({}, uf, {})
            IN  /\ r.upserts = {} /\ r.deletes = {} /\ r.toDelete = {}
                /\ r.remote = remote
                /\ \A p \in r.toSync : Gated(p)

\* C4 witness: a second FullReconcile is about to run with a sync set that
\* is not empty
C4_Witness == hist = "clean" /\ ToSync({}) # {}

\* C5 as stated: in a FullReconcile in which exactly one remote upsert fails,
\* every other path of the sync set is upserted and recorded in the State
\* Cache, FullReconcile returns no error, and the failing path is in the
\* retry queue with count 1.
C5_PartialFailure ==
    \A hf \in SUBSET WalkDir : \A uf \in [ToSync(hf) -> Faults] :
      \A df \in SUBSET Batches(hf) :
        LET r == Reconcile(hf, uf, df)
        IN  \A p \in r.toSync :
                (r.failed = {p} /\ p \in r.upserts) =>
                    /\ \A q \in r.toSync \ {p} :
                          /\ q \in r.upserts
                          /\ r.remote[q].hash = HashFile(local[q])
                          /\ r.files[q] = HashFile(local[q])
                    /\ r.ret = "nil"
                    /\ r.queue[p] = 1

\* C5 amended: in a FullReconcile in which exactly one remote upsert fails,
\* every other path of the sync set is recorded in the State Cache with its
\* local fingerprint, and is upserted unless the fingerprint gate or the
\* attachment size limit skips it; FullReconcile returns no error; the
\* failing path keeps its cache entry and is in the retry queue with count 0.
C5_PartialFailureIsolated ==
    \A hf \in SUBSET WalkDir : \A uf \in [ToSync(hf) -> Faults] :
      \A df \in SUBSET Batches(hf) :
        LET r == Reconcile(hf, uf, df)
        IN  \A p \in r.toSync :
                (r.failed = {p} /\ p \in r.upserts) =>
                    /\ \A q \in r.toSync \ {p} :
                          /\ r.files[q] = HashFile(local[q])
                          /\ IF Gated(q) \/ Oversize(q)
                             THEN q \notin r.upserts /\ r.remote[q] = remote[q]
                             ELSE /\ q \in r.upserts
                                  /\ r.remote[q] = [hash |-> HashFile(local[q]),
                                                    data |-> local[q]]
                    /\ r.ret = "nil"
                    /\ r.files[p] = cache[p]
                    /\ r.remote[p] = remote[p]
                    /\ r.queue[p] = 0

\* C5 witness: a FullReconcile has left one path queued with count 0 and not
\* cached, and the other path upserted and cached
C5_Witness ==
    \E p \in EPaths, q \in EPaths :
        /\ p # q
        /\ lastFullSync = SomeTime
        /\ retryQueue[p] = 0 /\ retryQueue[q] = NoRetry
        /\ local[p] # NoFile /\ local[q] # NoFile
        /\ cache[p] # HashFile(local[p])
        /\ remote[p].hash # HashFile(local[p])
        /\ cache[q] = HashFile(local[q])
        /\ remote[q].hash = HashFile(local[q])

\* no pattern is configured: the filter admits every path
NoPatterns == cfg.ignore = {} /\ cfg.include = {}

C7_RoundTrip ==
    hist = "pulled" =>
        LET r == Reconcile({}, NoFault, {})
        IN  r.toSync = {} /\ r.toDelete = {} /\ r.remote = remote

\* C8: right after a FullReconcile in which nothing failed, every path with
\* a State Cache entry exists as a local file or as a remote entity.
C8_NoOrphanEntry ==
    hist = "clean" =>
        \A p \in EPaths :
            cache[p] # NoHash => (local[p] # NoFile \/ remote[p] # NoRow)

\* C9: when the process has died, during Save or at any other time, the
\* state file is absent or a complete snapshot, never cut short.
C9_SaveAllOrNothing == pc = "down" => disk # Torn

\* C14: the count of a Retry entry is the number of re-attempts made for it
\* and never exceeds RetryAttempts.  A sweep re-attempts an entry below the
\* ceiling once: it removes the entry when the re-attempt succeeds and
\* raises its count when it fails.  A sweep drops an entry at the ceiling
\* without a re-attempt, and it never touches a path that is not queued.
C14_RetryCeiling ==
    /\ \A p \in EPaths : retryQueue[p] \in {NoRetry} \cup (0..RetryAttempts)
    /\ \A uf \in [Tried -> Faults] :
          LET r == Sweep(uf)
          IN  \A p \in EPaths :
                IF retryQueue[p] # NoRetry /\ retryQueue[p] < RetryAttempts
                THEN LET res == upsertFile(p, uf[p])
                     IN  /\ r.queue[p] = IF res.ret = "err"
                                         THEN retryQueue[p] + 1 ELSE NoRetry
                         /\ (p \in r.upserts) = res.call
                         /\ r.files[p] = res.st
                         /\ r.remote[p] = res.row
                ELSE /\ r.queue[p] = NoRetry
                     /\ p \notin r.upserts
                     /\ r.files[p] = cache[p]
                     /\ r.remote[p] = remote[p]

\* C14 witness: a path has failed RetryAttempts re-attempts and still needs
\* a sync; the next sweep drops it
C14_Witness ==
    \E p \in EPaths :
        /\ retryQueue[p] = RetryAttempts
        /\ local[p] # NoFile
        /\ ~Gated(p)
        /\ remote[p].hash # HashFile(local[p])

\* the state file holds a snapshot of this vault
SnapshotOfVault == disk.st = "ok" /\ disk.vault = VaultPath

\* the state NewStateTracker gives always carries the vault of the process
TrackerOfVault == NewStateTracker.vault = VaultPath

\* a starting process has the file map and the time of the snapshot when
\* the state file is a snapshot of this vault, and an empty file map and no
\* time otherwise
StartsFromSnapshot ==
    (pc = "down" /\ pc' = "idle") =>
        IF SnapshotOfVault
        THEN cache' = disk.files /\ lastFullSync' = disk.lastFullSync
        ELSE cache' = NoFiles /\ lastFullSync' = NoTime

\* C15: NewStateTracker's cache is the stored snapshot only when the state
\* file can be read, parses and carries the vault path of the process; when
\* the file is missing, cut short, or carries another vault path, the cache
\* starts with an empty file map, no last-full-sync time and the vault path
\* of the process.
C15_LoadChecksVault == []TrackerOfVault /\ [][StartsFromSnapshot]_vars

\* C15 witness: a process has started over a state file that is a snapshot
\* of another vault with a file in it, and its cache is empty
C15_Witness ==
    /\ pc = "idle"
    /\ disk.st = "ok"
    /\ disk.vault = OtherVault
    /\ disk.files # NoFiles
    /\ disk.lastFullSync = SomeTime
    /\ cache = NoFiles
    /\ lastFullSync = NoTime

\* C16: handling a delete event for path p issues one remote delete for p,
\* on the notes table when p ends in .md and on the attachments table
\* otherwise.  When the delete succeeds the row and the State Cache entry of
\* p are gone, nothing else has changed and no error is returned; when it
\* fails the error is returned and the State Cache is untouched.  When p
\* has neither a row nor a cache entry the Remote Store and the State Cache
\* are left as they were and no error is returned.
C16_RemoveFile ==
    \A p \in EPaths :
        LET done == Handle(p, EventDelete, "none")
            refused == Handle(p, EventDelete, "db")
        IN  /\ done.deletes = {p} /\ done.upserts = {}
            /\ done.table = (IF p \in Notes THEN "notes" ELSE "attachments")
            /\ done.ret = "nil"
            /\ done.remote = [remote EXCEPT ![p] = NoRow]
            /\ done.files = [cache EXCEPT ![p] = NoHash]
            /\ refused.deletes = {p} /\ refused.upserts = {}
            /\ refused.table = done.table
            /\ refused.ret = "err"
            /\ refused.remote = remote
            /\ refused.files = cache
            /\ (remote[p] = NoRow /\ cache[p] = NoHash) =>
                   done.remote = remote /\ done.files = cache

\* C16 witness: the file of a synced path is gone, so that its delete event
\* has a row and a cache entry to remove, while the other path has neither
C16_Witness ==
    \E p, q \in EPaths :
        /\ local[p] = NoFile /\ remote[p] # NoRow /\ cache[p] # NoHash
        /\ remote[q] = NoRow /\ cache[q] = NoHash

\* a SyncFile step for a create or modify event of a path without a file
\* leaves the Remote Store, the State Cache, its dirty flag and the Retry
\* queue as they were
VanishedStepIsNoOp ==
    \A p \in EPaths, ty \in {EventCreate, EventModify}, f \in Faults :
        (local[p] = NoFile /\ SyncFile(p, ty, f)) =>
            UNCHANGED <<remote, cache, dirty, retryQueue, lastFullSync>>

\* for a path without a file, SyncFile of a create or modify event calls
\* nothing and returns no error, whatever the file and database operations
\* would have answered
VanishedIsNoOp ==
    \A p \in EPaths :
        local[p] = NoFile =>
            \A ty \in {EventCreate, EventModify}, f \in Faults :
                LET h == Handle(p, ty, f)
                IN  /\ h.ret = "nil"
                    /\ h.upserts = {} /\ h.deletes = {}
                    /\ h.remote = remote
                    /\ h.files = cache
                    /\ h.dirty = dirty

\* C17: handling a settled create or modify event for a path whose file no
\* longer exists makes no Remote Store call, changes no State Cache entry,
\* adds no Retry entry and returns no error.
C17_VanishedFile == []VanishedIsNoOp /\ [][VanishedStepIsNoOp]_vars

\* C17 witness: the file of a synced path has vanished while the process
\* runs, and the path is not filtered out
C17_Witness ==
    \E p \in EPaths :
        /\ pc = "idle"
        /\ local[p] = NoFile
        /\ cache[p] # NoHash
        /\ remote[p] # NoRow
        /\ ~shouldIgnore(p)

\* the daemon leaves its loop only through the branch of the shutdown
\* signal; in particular the step in which SyncFile returns an error leaves
\* it in the loop
LoopEndsBySignal ==
    /\ (dpc = "run" /\ dpc' # "run") => (dpc' = "stop" /\ stopPc' # stopPc)
    /\ (~syncErr /\ syncErr') => dpc' = "run"

\* C18: after SyncFile has returned an error for one settled event the
\* daemon's loop keeps running: the failure does not end the loop, and an
\* event that is settled in the events channel afterwards is handled,
\* unless the shutdown signal arrives first.
C18_LoopSurvivesError ==
    /\ [][LoopEndsBySignal]_vars
    /\ \A b \in BOOLEAN :
          (dpc = "run" /\ syncErr /\ Len(output) > 0 /\ served = b)
              ~> (served # b \/ dpc = "stop")

\* C18 witness: a SyncFile has failed, the loop runs, and the next settled
\* event waits in the events channel
C18_Witness ==
    /\ dpc = "run"
    /\ syncErr
    /\ served
    /\ Len(output) > 0

\* C19: PullFromDB writes the file of a row exactly when the local file is
\* missing or its fingerprint differs from the row's; whatever writes (or
\* directory creations) fail, each of the other rows that is to be written
\* is written, with the content of the row, and no other file changes.
C19_PullWritesDiffering ==
    \A wf \in SUBSET EPaths :
        LET r == Pull(TRUE, wf)
        IN  /\ r.ret = "nil"
            /\ \A p \in EPaths :
                  LET differs ==
                          /\ remote[p] # NoRow
                          /\ \/ local[p] = NoFile
                             \/ HashFile(local[p]) # remote[p].hash
                  IN  /\ (p \in r.writes) = differs
                      /\ r.local[p] = IF differs /\ p \notin wf
                                      THEN remote[p].data ELSE local[p]
                      /\ (differs /\ p \notin wf) =>
                             HashFile(r.local[p]) = remote[p].hash

\* C19 witness: one row has a local file with another fingerprint and the
\* other row has a local file with its own fingerprint
C19_Witness ==
    \E p, q \in EPaths :
        /\ remote[p] # NoRow /\ local[p] # NoFile
        /\ HashFile(local[p]) # remote[p].hash
        /\ remote[q] # NoRow /\ local[q] # NoFile
        /\ HashFile(local[q]) = remote[q].hash

(***************************************************************************)
(* The filters: claims.                                                    *)
(***************************************************************************)
\* the rule of admission: no ignore pattern matches the path or one of its
\* ancestor directories, and an include pattern matches the path when
\* include patterns are configured
Admitted(relPath) ==
    /\ ~\E pattern \in cfg.ignore :
           \E partial \in Prefixes(relPath) \cup {relPath} :
               Match(pattern, partial)
    /\ cfg.include # {} => \E pattern \in cfg.include : Match(pattern, relPath)

\* C20: the watcher's filter and the engine's filter both admit a path
\* exactly when no ignore pattern matches the path or one of its ancestor
\* directories and, when include patterns are configured, an include
\* pattern matches the path; the two filters decide alike for every path.
C20_FiltersAgree ==
    filt # NoFilt =>
        /\ filt.watcher = Admitted(filt.path)
        /\ filt.engine = Admitted(filt.path)
        /\ filt.watcher = filt.engine

\* C21: the local enumeration of FullReconcile is exactly the set of files
\* under the root that the filter admits, whatever patterns are configured:
\* a file that matches an include pattern and no ignore pattern is
\* enumerated even when the root or a directory on its path matches no
\* include pattern.
C21_Enumeration ==
    WalkDir = {p \in EPaths : local[p] # NoFile /\ ~shouldIgnore(p)}

(***************************************************************************)
(* SanitizeIdentifier: claims.                                             *)
(***************************************************************************)
\* C22: for every vault name, SanitizeIdentifier returns a string that is
\* not empty, is at most 63 characters long, contains only the letters a-z,
\* digits and underscores, and starts with a letter.
C22_ValidIdentifier ==
    ident.done =>
        /\ Len(ident.value) \in 1..MaxIdentifier
        /\ \A i \in 1..Len(ident.value) : IsValid(ident.value[i])
        /\ ident.value[1] \in Lower

\* C22 witness: a name that starts with a digit and is longer than an
\* identifier can be has been given the prefix and cut at the limit
C22_Witness ==
    /\ ident.done
    /\ Len(vaultName) > MaxIdentifier
    /\ vaultName[1] \in Digits
    /\ Len(ident.value) = MaxIdentifier

\* C24: FullReconcile puts a remote path in the delete set only if no file
\* that passes the filter exists at that path: the row of a local file that
\* exists and passes the filter is never in the delete set, also when the
\* file's fingerprint could not be computed during the scan.
C24_DeleteOnlyMissing ==
    \A hf \in SUBSET WalkDir : \A uf \in [ToSync(hf) -> Faults] :
        LET r == Reconcile(hf, uf, {})
        IN  \A p \in r.toDelete : local[p] = NoFile \/ shouldIgnore(p)

\* a step that creates or changes the State Cache entry of a path to the
\* fingerprint H leaves the Remote Store with a row of that path with
\* fingerprint H: the upsert of the step was accepted
EntryFollowsUpsert ==
    \A p \in EPaths :
        (cache'[p] # cache[p] /\ cache'[p] # NoHash) =>
            remote'[p].hash = cache'[p]

\* C25: the State Cache entry of a path is created or updated only after a
\* Remote Store upsert of that path with that fingerprint has succeeded; a
\* failed upsert leaves the entry as it was.
C25_EntryAfterUpsert == [][EntryFollowsUpsert]_vars

\* C26: a State Cache entry is removed only after the remote delete that
\* covers its path has succeeded, by the delete of SyncFile and by the
\* batch deletes of FullReconcile alike; when the remote delete fails, the
\* entry of every path it covers is kept.
C26_EntryKeptOnFailedDelete ==
    /\ \A p \in EPaths : Handle(p, EventDelete, "db").files = cache
    /\ \A hf \in SUBSET WalkDir : \A uf \in [ToSync(hf) -> Faults] :
         \A df \in SUBSET Batches(hf) :
           LET r == Reconcile(hf, uf, df)
           IN  \A p \in r.toDelete :
                   TableOf(p) \in df => r.files[p] = cache[p]

\* SyncFile for path p and an event of type ty fails in the Remote Store
RemoteFails(p, ty) ==
    LET h == Handle(p, ty, "db") IN h.ret = "err" /\ h.upserts \cup h.deletes # {}

\* a SyncFile step whose upsert or delete fails changes neither the State
\* Cache nor the Retry queue
FailedStepKeepsState ==
    \A p \in EPaths, ty \in EventTypes :
        (RemoteFails(p, ty) /\ SyncFile(p, ty, "db")) =>
            UNCHANGED <<cache, retryQueue, remote, lastFullSync, dirty>>

\* whenever the upsert or the delete of SyncFile is refused by the Remote
\* Store, SyncFile returns the error and leaves the State Cache as it was
FailureIsReturned ==
    \A p \in EPaths, ty \in EventTypes :
        LET h == Handle(p, ty, "db")
        IN  h.upserts \cup h.deletes # {} =>
                /\ h.ret = "err"
                /\ h.files = cache
                /\ h.remote = remote
                /\ h.dirty = dirty

\* C27: when a Remote Store upsert or delete fails while SyncFile handles an
\* event, SyncFile returns the error to its caller, and the State Cache and
\* the Retry queue are exactly as they were before the event was handled.
C27_IncrementalFailure == []FailureIsReturned /\ [][FailedStepKeepsState]_vars

\* C27 witness: a changed note that is synced and not filtered out, so that
\* both the upsert of a modify event and the delete of a delete event reach
\* the Remote Store, with another path waiting in the Retry queue
C27_Witness ==
    /\ local["d/c.md"] # NoFile
    /\ ~shouldIgnore("d/c.md")
    /\ cache["d/c.md"] # NoHash
    /\ cache["d/c.md"] # HashFile(local["d/c.md"])
    /\ retryQueue["b.png"] # NoRetry

\* C28: when the fetch of the remote inventory fails, FullReconcile returns
\* an error, has issued no upsert and no delete, and has changed neither
\* the Remote Store, the State Cache, the last-full-sync time nor the Retry
\* queue.
C28_FetchFailure ==
    /\ FetchFailed.ret = "err"
    /\ FetchFailed.upserts = {} /\ FetchFailed.deletes = {}
    /\ FetchFailed.remote = remote
    /\ FetchFailed.files = cache
    /\ FetchFailed.lastFullSync = lastFullSync
    /\ FetchFailed.queue = retryQueue

\* C28 witness: no full reconciliation has completed yet, and the one that
\* fails at the fetch would have had a file to sync and a row to delete
C28_Witness ==
    /\ lastFullSync = NoTime
    /\ ToSync({}) # {}
    /\ ToDelete({}) # {}

\* the number of sweeps after which the queue q is empty at the latest: an
\* entry with count c is dropped by the sweep that finds it at the ceiling
SweepsLeft(q) ==
    LET left(p) == IF q[p] = NoRetry THEN 0
                   ELSE Max(RetryAttempts + 1 - q[p], 1)
    IN  Max(left("b.png"), left("d/c.md"))

\* whatever its re-attempts give, a sweep of a queue that is not empty
\* brings the queue one sweep closer to empty, and never more than
\* RetryAttempts + 1 sweeps are left
SweepComesCloser ==
    /\ SweepsLeft(retryQueue) <= RetryAttempts + 1
    /\ \A uf \in [Tried -> Faults] :
          SweepsLeft(retryQueue) > 0 =>
              SweepsLeft(Sweep(uf).queue) < SweepsLeft(retryQueue)

\* a step that is not a sweep coming closer leaves the queue as it is, or
\* is a FullReconcile that queues its failures with count 0
OnlyReconcileQueues ==
    \/ retryQueue' = retryQueue
    \/ SweepsLeft(retryQueue') < SweepsLeft(retryQueue)
    \/ \A p \in EPaths : retryQueue'[p] \in {retryQueue[p], 0}

\* C29: every Retry entry is eventually removed unless a FullReconcile
\* queues new failures: each sweep removes an entry or raises its count,
\* so that after at most RetryAttempts + 1 sweeps in a row the queue is
\* empty, whether the re-attempts succeed or keep failing; and the sweeps
\* keep coming, so that no entry stays at its count.
C29_QueueDrains ==
    /\ []SweepComesCloser
    /\ [][OnlyReconcileQueues]_vars
    /\ \A p \in EPaths : \A k \in 0..RetryAttempts :
          (retryQueue[p] = k) ~> (retryQueue[p] # k)

\* C29 witness: one entry is at the ceiling and the other has just been
\* queued, so that the next sweeps drop the one and re-attempt the other
C29_Witness ==
    \E p, q \in EPaths :
        retryQueue[p] = RetryAttempts /\ retryQueue[q] = 0

\* the snapshot Save would write now
Snapshot ==
    [st |-> "ok", vault |-> VaultPath, files |-> cache,
     lastFullSync |-> lastFullSync]

\* Save with the dirty flag down writes nothing and returns no error; with
\* the flag up it writes the snapshot and takes the flag down when the
\* write succeeds, and returns the error and leaves the flag up when the
\* write fails
SaveWritesIfDirty ==
    \A s \in {"ok", "open", "write"} :
        LET sv == Save(s, cache, lastFullSync, dirty)
        IN  IF ~dirty
            THEN sv.disk = disk /\ sv.ret = "nil" /\ ~sv.dirty
            ELSE IF s = "ok"
            THEN sv.disk = Snapshot /\ sv.ret = "nil" /\ ~sv.dirty
            ELSE sv.disk \in {disk, Torn} /\ sv.ret = "err" /\ sv.dirty

\* while the flag is down nothing has changed since the last successful
\* Save: the process holds what it loaded or what it last wrote
CleanMeansSaved ==
    (pc = "idle" /\ ~dirty) =>
        \/ disk = Snapshot
        \/ cache = NewStateTracker.files
           /\ lastFullSync = NewStateTracker.lastFullSync

\* a step of the running process that changes the file map or the
\* last-full-sync time leaves the flag up, unless it ends in a successful
\* Save of the new state
MutationRaisesFlag ==
    (pc = "idle" /\ pc' = "idle"
        /\ (cache' # cache \/ lastFullSync' # lastFullSync)) =>
        \/ dirty'
        \/ disk'.st = "ok" /\ disk'.files = cache'
           /\ disk'.lastFullSync = lastFullSync'

\* C30: Save writes the snapshot if and only if the cache was changed since
\* the last successful Save: a Save with nothing changed writes nothing,
\* and a Save whose write fails leaves the dirty flag set, so that the next
\* Save writes again.
C30_SaveIfDirty ==
    /\ []SaveWritesIfDirty
    /\ []CleanMeansSaved
    /\ [][MutationRaisesFlag]_vars

\* C30 witness: a Save has failed and cut the state file short, the flag is
\* still up and the process still holds a file map to write
C30_Witness ==
    /\ pc = "idle"
    /\ dirty
    /\ disk = Torn
    /\ cache # NoFiles

(***************************************************************************)
(* StateTracker.NeedsSync: claims.                                         *)
(***************************************************************************)
\* the State Cache holds an entry for path
Tracked(path) == cache[path] # NoHash

\* the State Cache as a call of NeedsSync must leave it
NeedsSyncReadsOnly ==
    cache' = cache /\ dirty' = dirty /\ lastFullSync' = lastFullSync

\* the answer of the last call of NeedsSync is false exactly for a tracked
\* path whose cached fingerprint is the one that was asked about
NeedsSyncAnswer ==
    asked # NoAsk =>
        (asked.ret <=> (~Tracked(asked.path) \/ cache[asked.path] # asked.hash))

\* C31: NeedsSync(path, h) returns true exactly when path has no State Cache
\* entry or its cached fingerprint differs from h, and the call never
\* modifies the cache (entries, dirty flag and last-full-sync time stay).
C31_NeedsSync == []NeedsSyncAnswer /\ [][NeedsSyncReadsOnly]_vars

\* C31 witness: NeedsSync has answered true for a path without an entry
\* while the other path is tracked
C31_Witness ==
    /\ asked # NoAsk
    /\ asked.ret
    /\ ~Tracked(asked.path)
    /\ \E p \in EPaths : Tracked(p)

(***************************************************************************)
(* Debouncer: every pending event is handed over once.                     *)
(***************************************************************************)
\* the emit calls that have taken an event of path p out of d.events and
\* stand at their select
Holders(p) ==
    {i \in TimerIds : /\ timers[i] # NoTimer
                      /\ timers[i].st = "send"
                      /\ timers[i].ev.path = p}

\* the events of path p that are pending or held by an emit
InHand(p) ==
    Cardinality(Holders(p))
      + (IF events[p] # NoEvent THEN 1 ELSE 0)
      + (IF flushHeld # NoEvent /\ flushHeld.path = p THEN 1 ELSE 0)

\* a step puts an event of path p into the output channel
Sends(p) == lastSent' # NoEvent /\ lastSent'.path = p

\* a step of Add makes a new pending event of path p
Creates(p) == events[p] = NoEvent /\ events'[p] # NoEvent

\* every step: an event handed to the channel was in hand and is no longer
\* (so none is handed over twice), the events in hand grow only by a new
\* pending event, and they shrink without a send only once Stop has closed
\* d.stopCh
HandedOnce ==
    \A p \in DPaths :
        IF Sends(p) THEN InHand(p)' = InHand(p) - 1 /\ Len(output') = Len(output) + 1
        ELSE IF Creates(p) THEN InHand(p)' = InHand(p) + 1
        ELSE \/ InHand(p)' = InHand(p)
             \/ stopped /\ InHand(p)' < InHand(p)

\* a pending event is never left without somebody to hand it over: its
\* countdown is armed or its expiry is running, or Flush has collected its
\* path and not yet called emit for it
NotStranded ==
    \A p \in DPaths :
        (events[p] # NoEvent /\ ~stopped) =>
            \/ \E i \in TimerIds : /\ timers[i] # NoTimer
                                   /\ timers[i].path = p
                                   /\ timers[i].st \in {"armed", "fired"}
            \/ p \in flushPaths /\ flushPc \in {"emit", "send"}

\* C32: every pending event is handed to the consumer queue at most once,
\* and exactly once unless Stop intervenes, under every interleaving of Add,
\* the expiries, Flush and Stop: no step hands over an event that is not in
\* hand or keeps it in hand, none leaves the hand without being handed over
\* before Stop, and a pending event always has an expiry or the Flush in
\* flight that will hand it over.
C32_HandedOnce == []NotStranded /\ [][HandedOnce]_vars

\* C32 witness: an expiry has taken the event of a path that Flush has
\* collected and is about to emit, while a new event of that path is pending
C32_Witness ==
    \E p \in DPaths :
        /\ ~stopped
        /\ Holders(p) # {}
        /\ p \in flushPaths
        /\ flushPc = "emit"
        /\ events[p] # NoEvent

(***************************************************************************)
(* Debouncer: Add after Stop.                                              *)
(***************************************************************************)
\* a countdown is armed
Armed == {i \in TimerIds : timers[i] # NoTimer /\ timers[i].st = "armed"}

\* an Add that takes d.mu once d.stopCh is closed returns at its check: it
\* stores no event and starts no countdown
AddAfterStopAdmitsNothing ==
    \A w \in Producers :
        (stopped /\ prod[w].pc = "lock" /\ prod'[w] # prod[w]) =>
            /\ prod'[w] = Idle
            /\ events' = events
            /\ timers' = timers

\* once Stop has cleared d.events, no event is pending, whatever is called
\* afterwards
EmptyAfterStop == stopPc \in {"close", "done"} => Pending = {}

\* once Stop has cleared d.events, no step arms a countdown
NoCountdownStarted == stopPc \in {"close", "done"} => Armed' \subseteq Armed

\* C33: after Stop has been called, Add admits nothing: an Add that reaches
\* its check of d.stopCh after Stop closed it creates no pending event and
\* starts no countdown, and from the moment Stop has cleared the pending set
\* it stays empty, and no countdown is started, in every later state.
C33_NoAddAfterStop ==
    /\ []EmptyAfterStop
    /\ [][AddAfterStopAdmitsNothing /\ NoCountdownStarted]_vars

\* C33 witness: Stop has returned and an Add called for a path stands at
\* its check of d.stopCh
C33_Witness ==
    /\ stopPc = "done"
    /\ \E w \in Producers : prod[w].pc = "lock"

(***************************************************************************)
(* Debouncer: d.mu and the bounded channel.                                *)
(***************************************************************************)
\* an emit stands at its select with an event in its hand
AtSelect == flushHeld # NoEvent \/ \E p \in DPaths : Holders(p) # {}

\* d.mu is held only by an Add, between its lookup and its store; no emit
\* that stands at its select holds it
LockOnlyInAdd == mu # 0 => mu \in Producers /\ prod[mu].pc = "store"

\* an Add waits for nothing but d.mu: with d.mu free it takes its check and
\* lookup, and with a timer to arm it finishes, however full the channel is
AddProceeds ==
    \A w \in Producers :
        /\ (prod[w].pc = "lock" /\ mu = 0 /\ ~panicked) =>
               ENABLED (\E ty \in EventTypes : AddLook(w, ty))
        /\ (prod[w].pc = "store" /\ FreeIds # {} /\ ~panicked) =>
               ENABLED AddStore(w)

\* C34: Add is non-blocking with respect to the bounded consumer queue: d.mu
\* is never held while an event is being sent to the queue (only an Add in
\* its critical section holds it), so an Add for any path goes through
\* whenever d.mu is free, even when the queue is full and nobody receives.
C34_AddNonBlocking == LockOnlyInAdd /\ AddProceeds

\* C34 witness: the queue is full, an emit is blocked at its select, and an
\* Add has taken d.mu and is in its critical section
C34_Witness ==
    /\ Len(output) = OutputCap
    /\ ~stopped
    /\ AtSelect
    /\ \E w \in Producers : prod[w].pc = "store" /\ mu = w

(***************************************************************************)
(* The daemon: the ticker case and the events channel.                     *)
(***************************************************************************)
\* the loop's goroutine is inside the ticker case
InTicker == dpc \in {"save", "sweep"}

\* the loop can take the settled event at the head of the events channel
\* and hand it to SyncFile
EventCanBeTaken == ENABLED (\E f \in Faults : DaemonEvent(f))

\* C35: the periodic work of the daemon (state save and retry sweep) does
\* not block the event-driven path: while a save or a retry sweep is in
\* progress, a settled event waiting in the consumer queue can still be
\* taken and handled.
C35_TickerDoesNotBlock == (InTicker /\ Len(output) > 0) => EventCanBeTaken

(***************************************************************************)
(* Engine: agreement of the vault and the Remote Store.                    *)
(***************************************************************************)
\* the Remote Store holds an entity for p exactly when the file exists, and
\* then with the fingerprint of the file
Agrees(rows, p) ==
    IF local[p] = NoFile THEN rows[p] = NoRow
    ELSE rows[p].hash = HashFile(local[p])

\* C36: after a FullReconcile in which no remote or local operation fails,
\* the remote inventory agrees with the local tree: every admitted local
\* file has a remote entity carrying its local fingerprint and the remote
\* store holds no path that is absent locally, whatever the State Cache
\* contained beforehand.  (Stated where no pattern is configured and for
\* the files within the size limit, which leaves out the enumeration of
\* C21 and the oversized attachment of C25.)
C36_ReconcileAgrees ==
    LET r == Reconcile({}, NoFault, {})
    IN  NoPatterns =>
            \A p \in EPaths : ~Oversize(p) => Agrees(r.remote, p)

(***************************************************************************)
(* The daemon: what has reached the Remote Store once all is quiet.        *)
(***************************************************************************)
\* the loop runs and has nothing left to do for path p: no event of p is
\* pending, in the hand of an emit or in the events channel, and no
\* countdown of p is armed or expiring
Quiet(p) ==
    /\ dpc = "run"
    /\ events[p] = NoEvent
    /\ ~InFlight(p)
    /\ output = <<>>

\* the watcher has reported a change of p
Notified(p) == burst[p].types # <<>>

\* C37: on the incremental path, once the notifications for path p have
\* stopped and every settled event has been handled without failure, the
\* remote store holds an entity for p if and only if the file exists
\* locally, with the local fingerprint, for every order of create, modify
\* and delete notifications within a quiet window, including a delete
\* followed by a re-create.
C37_IncrementalAgrees ==
    \A p \in DPaths :
        (Quiet(p) /\ Notified(p) /\ ~syncErr) => Agrees(remote, p)

\* C38: no local change made while the daemon is starting is missed: after
\* an initial FullReconcile without failure, a file created, modified or
\* deleted before the watcher is started is propagated to the remote store
\* by the time the loop has nothing left to do, without a later full
\* reconciliation (here: while no later change of the file is reported).
C38_StartupChangeSeen ==
    \A p \in DPaths :
        (Quiet(p) /\ ~Notified(p) /\ retryQueue = NoQueue) => Agrees(remote, p)

====
